---- MODULE Spec2Model ----
(***************************************************************************)
(* A model of the map painter / conquest game (kelias-gh/hihoj).           *)
(*                                                                         *)
(*  - diplomacy.ts   : the pairwise relation store                         *)
(*  - conquest.ts    : conquestAlongPath                                   *)
(*  - main.ts        : the editor page (raster, paint, floodFill, load)    *)
(*  - game.ts        : the game page (units, movement, conquest, load)     *)
(*                                                                         *)
(* Strings are modelled as sequences of UTF-16 code units, so that         *)
(* Array.prototype.sort's default comparison and string joins are          *)
(* computed as the code computes them.                                     *)
(***************************************************************************)
EXTENDS Integers, Sequences, FiniteSets, TLC

VARIABLES
  diplomacyState,   \* DiplomacyState.relations : Map<string, status>
  dLast,            \* the last diplomacy call: [op, a, b, ret, before]
  dBefore2,         \* relations before the first of two equal consecutive toggles
  cqData,           \* conquest.ts: the pixelData buffer handed to conquestAlongPath
  cqArgs,           \* its other arguments: [path, color, radius, countryId]
  cqResult,         \* NULL, or its ConquestResult with the buffer as it was before
  cqPrev,           \* NULL, or the previous call on the same buffer contents and path
  page,             \* the page that is open: "editor" (main.ts), "game" (game.ts) or "none"
  startLoad,        \* "library" while the loadFromStorage call of the page's start awaits
                    \* getScenario, "none" otherwise
  needsUpdate,      \* the page's dirty flag
  distanceFieldRT,  \* NULL, or the raster contents the last runJFA computed the overlay from
  frame,            \* NULL, or what the last displayed frame showed
  writes,           \* the raster writes since the last frame: 0, 1, or 2 for two or more
  jfaRuns,          \* NULL, or what the frame did about runJFA that was the last to run
                    \* with no raster write after it: [runs, writes, dirty]
  rt,               \* main.ts: the contents of the two paint render targets
  edRef,            \* one raster to which every raster operation so far was applied in
                    \* order
  paintA,           \* main.ts: the render target the variable paintA refers to
  paintB,           \* main.ts: the render target the variable paintB refers to
  uTexture,         \* main.ts: paintUniforms.uTexture.value
  u_colorMap,       \* main.ts: displayMat.uniforms.u_colorMap.value
  isPainting,       \* main.ts
  isFillMode,       \* main.ts
  prevPos,          \* main.ts
  currPos,          \* main.ts
  edImages,         \* main.ts: the save files whose Image is still decoding
  edits,            \* main.ts: the number of raster-changing commands given so far
  eLast,            \* main.ts: the last command: [op, ...], with the raster before a floodFill
  eRepeat,          \* main.ts: NULL, or the floodFill command that the last command repeated
  paintRT,          \* game.ts: the contents of the paint render target
  cachedPixelData,  \* game.ts
  unitState,        \* game.ts: [units, selectedUnitId]
  activeTasks,      \* game.ts: movementManager.activeTasks
  gameLoads,        \* game.ts: the loadMap calls suspended at their await
  frames,           \* the parity of the number of frames that SpecMove has seen (it is
                    \* left at 0 by every other specification)
  aiRequests,       \* game.ts: the executeAICommand calls that await planMovement, each
                    \* as [id, detached]: the id of the unit it has as selected, and
                    \* NULL while that unit is in unitState.units, or the position the
                    \* unit had when it was taken out
  loadLog,          \* [last, overlapped]: whether a loadMap call was made while another
                    \* was suspended, and the file of the call made last since (else 0);
                    \* kept until the step after the last of them has settled
  commands,         \* game.ts: the number of loads and user commands so far
  jfaSize,          \* shaders.ts: the width and height of the field jfaFrag is run on
  jfaSeed,          \* the texel <<x, y>> that is its only seed
  jfaField,         \* the contents of the buffer the last pass has written
  jfaPass,          \* the number of jump-flood passes run on it
  jfaRT,            \* main.ts, game.ts: the contents of the two jump-flood render targets
  jfaA,             \* the target that the variable jfaA names
  jfaB,             \* the target that the variable jfaB names
  jfaTrace,         \* the stages of runJFA so far, each with the target it read and the
                    \* target it rendered into
  jfaDistance,      \* NULL, or the contents of distanceFieldRT after the last stage
  lbData,           \* countryNaming.ts: the pixelData handed to createCountryLabel
  lbResult,         \* NULL, or [label |-> what createCountryLabel returned]
  ckArg,            \* types.ts: NULL, or the key or the colour a round trip starts from
  ckOut,            \* NULL, or the key or the colour the round trip ended with
  aiInput,          \* game.ts: NULL, or what executeAICommand finds: [command, selected,
                    \* geminiConfig]
  aiPhase,          \* where executeAICommand is: "idle", "awaiting" (at its await),
                    \* "returned" or "threw"
  aiOutcome,        \* NULL, or how the request to the assistant ended
  aiAlert,          \* NULL, or the message of the alert shown
  aiStatusShown,    \* whether the aiStatus element is visible
  aiTasks,          \* movementManager.activeTasks
  bdData,           \* shaders.ts: the contents of u_lookUpTex that borderDetectFrag samples
  bdSeeds,          \* NULL, or the contents of the target borderDetectFrag was rendered into
  fitPoints,        \* countryNaming.ts: the set of sampled points <<x, y>> whose sums are fitted
  tpArgs,           \* countryNaming.ts: NULL, or the [start, end, charCount] that
                    \* generateTextPositions is called with
  tpOut,            \* NULL, or the positions it returned
  fitRate,          \* the sampleRate analyzeCountryPixels is called with
  cities,           \* main.ts: the Map of the cities by id (city_n is held as n)
  countryLabels,    \* main.ts: the Map of the country labels by country id
  textState,        \* textRendering.ts: [countryMeshes, cityMeshes], what is rendered for
                    \* each label id and for each city id
  cityIdCounter,    \* main.ts
  editingCityId,    \* main.ts: NULL, or the id of the city the city dialog edits
  pendingCityPosition, \* main.ts: NULL, or where the city of the city dialog is to be
  edSaved,          \* the files that saveMap has written so far
  fitOut            \* NULL, or [ykx, xky, analysis, segment, best]: what the two calls of
                    \* leastSquaresFit on the sums of fitPoints returned, and on the raster
                    \* with just these points in the target colour: what analyzeCountryPixels
                    \* returned, the segment traced on its y = kx + m line, and what
                    \* findBestLine returned

dipVars == <<diplomacyState, dLast, dBefore2>>
cqVars == <<cqData, cqArgs, cqResult, cqPrev>>
dispVars == <<needsUpdate, distanceFieldRT, frame, writes, jfaRuns>>
txVars == <<cities, countryLabels, textState, cityIdCounter, editingCityId, pendingCityPosition,
            edSaved>>
edVars == <<rt, edRef, paintA, paintB, uTexture, u_colorMap, isPainting, isFillMode, prevPos, currPos,
            edImages, edits, eLast, eRepeat, txVars>>
gameVars == <<paintRT, cachedPixelData, unitState, activeTasks, gameLoads, loadLog, commands,
              aiRequests, frames>>
appVars == <<page, startLoad, dispVars, edVars, gameVars>>
jfaVars == <<jfaSize, jfaSeed, jfaField, jfaPass, jfaRT, jfaA, jfaB, jfaTrace, jfaDistance>>
lbVars == <<lbData, lbResult>>
\* the variables of the functions that are driven on their own
ckVars == <<ckArg, ckOut>>
aiVars == <<aiInput, aiPhase, aiOutcome, aiAlert, aiStatusShown, aiTasks>>
bdVars == <<bdData, bdSeeds>>
\* the variables of the functions that are driven on their own, second part
fitVars == <<fitPoints, fitRate, fitOut>>
tpVars == <<tpArgs, tpOut>>
fn2Vars == <<bdVars, fitVars, tpVars>>
fnVars == <<jfaVars, lbVars, ckVars, aiVars, fn2Vars>>

vars == <<dipVars, cqVars, appVars, fnVars>>

\* an absent (null / undefined) value and a present one
NULL == [some |-> FALSE]
Some(v) == [some |-> TRUE, val |-> v]

\* a mutant: paint() leaves the two targets in their roles
swapNot(a, b) == <<a, b>>

\* [paintA, paintB] = [paintB, paintA] and [jfaA, jfaB] = [jfaB, jfaA]
swap(a, b) == <<b, a>>

(***************************************************************************)
(* Strings                                                                 *)
(***************************************************************************)

\* '_' , the delimiter of a colour key
UNDERSCORE == 95
\* '|' , the delimiter of a diplomacy pair key
BAR == 124


RECURSIVE NumStr(_)
\* String(n) for a non-negative integer n
NumStr(n) ==
  IF n < 10 THEN <<48 + n>>
  ELSE NumStr(n \div 10) \o <<48 + (n % 10)>>

RECURSIVE StrLess(_, _)
\* s < t for JavaScript strings: code unit by code unit, a proper prefix first
StrLess(s, t) ==
  IF t = <<>> THEN FALSE
  ELSE IF s = <<>> THEN TRUE
  ELSE IF Head(s) # Head(t) THEN Head(s) < Head(t)
  ELSE StrLess(Tail(s), Tail(t))

\* `${r}_${g}_${b}`
KeyOfRGB(r, g, b) ==
  NumStr(r) \o <<UNDERSCORE>> \o NumStr(g) \o <<UNDERSCORE>> \o NumStr(b)

(***************************************************************************)
(* diplomacy.ts                                                            *)
(***************************************************************************)

Status == {"peace", "war"}

\* new Map()
EmptyMap == [k \in {} |-> "peace"]

\* Map.prototype.set
MapSet(m, k, v) == [x \in (DOMAIN m) \cup {k} |-> IF x = k THEN v ELSE m[x]]

createDiplomacyState == EmptyMap

\* a mutant: the pair is joined in call order, not sorted
getKeyUnsorted(a, b) == a \o <<BAR>> \o b

\* a mutant: the key is the smaller of the two ids alone
getKeyOfSmaller(a, b) == IF StrLess(b, a) THEN b ELSE a

\* [a, b].sort().join('|')
getKey(a, b) ==
  IF StrLess(b, a) THEN b \o <<BAR>> \o a ELSE a \o <<BAR>> \o b

\* a mutant: no a === b early return
getRelationNoSelfCheck(state, a, b) ==
  IF getKey(a, b) \in DOMAIN state THEN state[getKey(a, b)] ELSE "peace"

getRelation(state, a, b) ==
  IF a = b THEN "peace"
  ELSE IF getKey(a, b) \in DOMAIN state THEN state[getKey(a, b)] ELSE "peace"

setRelation(state, a, b, status) ==
  IF a # b THEN MapSet(state, getKey(a, b), status) ELSE state

\* a mutant: toggling always declares war
toggleStatusAlwaysWar(state, a, b) == "war"

\* the newStatus of toggleRelation, which is also its return value
toggleStatus(state, a, b) ==
  IF getRelation(state, a, b) = "peace" THEN "war" ELSE "peace"

toggleRelation(state, a, b) == setRelation(state, a, b, toggleStatus(state, a, b))

isAtWar(state, a, b) == getRelation(state, a, b) = "war"

RECURSIVE deserializeFrom(_, _)
\* for (const { key, status } of data) state.relations.set(key, status)
deserializeFrom(state, data) ==
  IF data = <<>> THEN state
  ELSE deserializeFrom(MapSet(state, Head(data).key, Head(data).status), Tail(data))

\* data is NULL for an absent diplomacy list
deserializeDiplomacy(data) ==
  IF data = NULL THEN createDiplomacyState
  ELSE deserializeFrom(createDiplomacyState, data.val)

(***************************************************************************)
(* The diplomacy API driven by arbitrary call sequences                    *)
(***************************************************************************)

\* the length of a persisted diplomacy list
MaxDiplomacyData == 2

\* three colour keys; "255_0_0" < "25_0_0" as strings, unlike the numbers
CountryIds == { KeyOfRGB(255, 0, 0), KeyOfRGB(25, 0, 0), KeyOfRGB(0, 0, 255) }

IdA == KeyOfRGB(255, 0, 0)
IdB == KeyOfRGB(25, 0, 0)

\* keys a persisted record may hold: a sorted pair, the same pair unsorted, a self pair
StoredKeys ==
  { IdA \o <<BAR>> \o IdB, IdB \o <<BAR>> \o IdA, IdA \o <<BAR>> \o IdA }

DiplomacyEntries == [key : StoredKeys, status : Status]

RECURSIVE SeqsUpTo(_, _)
SeqsUpTo(S, n) ==
  IF n = 0 THEN {<<>>}
  ELSE LET shorter == SeqsUpTo(S, n - 1)
       IN shorter \cup { Append(s, x) : s \in {t \in shorter : Len(t) = n - 1}, x \in S }

DiplomacyLists == { Some(l) : l \in SeqsUpTo(DiplomacyEntries, MaxDiplomacyData) } \cup {NULL}

NoCall == [op |-> "none"]

CqIdle ==
  /\ cqData = <<>>
  /\ cqArgs = NULL
  /\ cqResult = NULL
  /\ cqPrev = NULL

\* jfaFrag is not driven
JfaIdle ==
  /\ jfaSize = 0
  /\ jfaSeed = <<>>
  /\ jfaField = <<>>
  /\ jfaPass = 0
  /\ jfaRT = <<>>
  /\ jfaA = 0
  /\ jfaB = 0
  /\ jfaTrace = <<>>
  /\ jfaDistance = NULL

\* createCountryLabel is not driven
LbIdle ==
  /\ lbData = <<>>
  /\ lbResult = NULL

\* colorToKey and keyToColor are not driven
CkIdle ==
  /\ ckArg = NULL
  /\ ckOut = NULL

\* executeAICommand is not driven
AiIdle ==
  /\ aiInput = NULL
  /\ aiPhase = "idle"
  /\ aiOutcome = NULL
  /\ aiAlert = NULL
  /\ aiStatusShown = FALSE
  /\ aiTasks = <<>>

\* borderDetectFrag is not driven
BdIdle ==
  /\ bdData = <<>>
  /\ bdSeeds = NULL

\* leastSquaresFit is not driven
FitIdle ==
  /\ fitPoints = {}
  /\ fitRate = 0
  /\ fitOut = NULL

\* generateTextPositions is not driven
TpIdle ==
  /\ tpArgs = NULL
  /\ tpOut = NULL

Fn2Idle == BdIdle /\ FitIdle /\ TpIdle

FnIdle == JfaIdle /\ LbIdle /\ CkIdle /\ AiIdle /\ Fn2Idle

\* the editor page is not open
EdIdle ==
  /\ rt = <<>>
  /\ edRef = <<>>
  /\ paintA = 0
  /\ paintB = 0
  /\ uTexture = 0
  /\ u_colorMap = 0
  /\ isPainting = FALSE
  /\ isFillMode = FALSE
  /\ prevPos = <<>>
  /\ currPos = <<>>
  /\ edImages = <<>>
  /\ edits = 0
  /\ eLast = NoCall
  /\ eRepeat = NULL
  /\ cities = <<>>
  /\ countryLabels = <<>>
  /\ textState = <<>>
  /\ cityIdCounter = 0
  /\ editingCityId = NULL
  /\ pendingCityPosition = NULL
  /\ edSaved = <<>>

\* the game page is not open
GameIdle ==
  /\ paintRT = <<>>
  /\ cachedPixelData = NULL
  /\ unitState = NULL
  /\ activeTasks = <<>>
  /\ gameLoads = <<>>
  /\ loadLog = [last |-> 0, overlapped |-> FALSE]
  /\ aiRequests = <<>>
  /\ frames = 0
  /\ commands = 0

\* no page is open: the functions are driven on their own
AppIdle ==
  /\ page = "none"
  /\ startLoad = "none"
  /\ needsUpdate = FALSE
  /\ distanceFieldRT = NULL
  /\ frame = NULL
  /\ writes = 0
  /\ jfaRuns = NULL
  /\ EdIdle
  /\ GameIdle

DipInit ==
  /\ diplomacyState = createDiplomacyState
  /\ dLast = NoCall
  /\ dBefore2 = NULL
  /\ CqIdle
  /\ AppIdle
  /\ FnIdle

DipSetRelation(a, b, s) ==
  /\ diplomacyState' = setRelation(diplomacyState, a, b, s)
  /\ dLast' = [op |-> "setRelation", a |-> a, b |-> b, ret |-> s, before |-> diplomacyState]
  /\ dBefore2' = NULL

DipToggleRelation(a, b) ==
  /\ diplomacyState' = toggleRelation(diplomacyState, a, b)
  /\ dLast' = [op |-> "toggleRelation", a |-> a, b |-> b,
               ret |-> toggleStatus(diplomacyState, a, b), before |-> diplomacyState]
  /\ dBefore2' = IF dLast.op = "toggleRelation" /\ dLast.a = a /\ dLast.b = b
                 THEN Some(dLast.before) ELSE NULL

DipDeserialize(data) ==
  /\ diplomacyState' = deserializeDiplomacy(data)
  /\ dLast' = [op |-> "deserializeDiplomacy", a |-> <<>>, b |-> <<>>, ret |-> "peace",
               before |-> diplomacyState]
  /\ dBefore2' = NULL

DipSet == UNCHANGED <<cqVars, appVars, fnVars>> /\ \E a \in CountryIds, b \in CountryIds, s \in Status : DipSetRelation(a, b, s)
DipToggle == UNCHANGED <<cqVars, appVars, fnVars>> /\ \E a \in CountryIds, b \in CountryIds : DipToggleRelation(a, b)
DipLoad == UNCHANGED <<cqVars, appVars, fnVars>> /\ \E data \in DiplomacyLists : DipDeserialize(data)

DipNext == DipSet \/ DipToggle \/ DipLoad

SpecDiplomacy == DipInit /\ [][DipNext]_vars

(***************************************************************************)
(* Claims on the diplomacy store                                           *)
(***************************************************************************)

\* the relation as callers see it
RelationView(state) == [a \in CountryIds |-> [b \in CountryIds |-> getRelation(state, a, b)]]

\* C7: after any sequence of setRelation, toggleRelation and
\* deserializeDiplomacy calls, getRelation(a,b) = getRelation(b,a) for all keys.
C7_Symmetric ==
  \A a \in CountryIds, b \in CountryIds :
    getRelation(diplomacyState, a, b) = getRelation(diplomacyState, b, a)

\* a state where a pair is at war after being set in the order (larger, smaller)
C7_Witness ==
  /\ dLast.op \in {"setRelation", "toggleRelation"}
  /\ StrLess(dLast.b, dLast.a)
  /\ getRelation(diplomacyState, dLast.a, dLast.b) = "war"
  /\ getRelation(diplomacyState, dLast.b, dLast.a) = "war"

\* C8: two toggleRelation(a,b) calls in a row leave getRelation of every pair
\* as it was before them.
C8_ToggleTwiceIdentity ==
  dBefore2 # NULL => RelationView(diplomacyState) = RelationView(dBefore2.val)

\* two toggles of a pair of different keys have run, and the first one changed the view
C8_Witness ==
  /\ dBefore2 # NULL
  /\ dLast.a # dLast.b
  /\ RelationView(dLast.before) # RelationView(dBefore2.val)

\* C9: getRelation is at-peace for a pair with nothing stored under its key,
\* and for a = b in every reachable state.
C9_DefaultPeace ==
  \A a \in CountryIds, b \in CountryIds :
    /\ getKey(a, b) \notin DOMAIN diplomacyState => getRelation(diplomacyState, a, b) = "peace"
    /\ a = b => getRelation(diplomacyState, a, b) = "peace"

\* setRelation(a,a,war) or toggleRelation(a,a) has run, or a record held a self pair at war
C9_Witness ==
  \/ /\ dLast.op \in {"setRelation", "toggleRelation"}
     /\ dLast.a = dLast.b
     /\ dLast.ret = "war"
  \/ /\ dLast.op = "deserializeDiplomacy"
     /\ (IdA \o <<BAR>> \o IdA) \in DOMAIN diplomacyState
     /\ diplomacyState[IdA \o <<BAR>> \o IdA] = "war"

\* C30: toggleRelation(a,b) returns the status that getRelation(a,b) reports
\* immediately after the call, for every a and b including a = b.
C30_ReturnsNewStatus ==
  dLast.op = "toggleRelation" =>
    dLast.ret = getRelation(diplomacyState, dLast.a, dLast.b)

\* toggleRelation(a, a) has returned 'war' and getRelation(a, a) reports 'peace'
C30_SelfPair ==
  /\ dLast.op = "toggleRelation"
  /\ dLast.a = dLast.b
  /\ dLast.ret = "war"
  /\ getRelation(diplomacyState, dLast.a, dLast.b) = "peace"
  /\ diplomacyState = dLast.before

\* C30 for two different countries: the returned status is the one getRelation reports
\* after the call, whatever was stored before
C30_DistinctPair ==
  (dLast.op = "toggleRelation" /\ dLast.a # dLast.b) =>
    dLast.ret = getRelation(diplomacyState, dLast.a, dLast.b)

\* toggleRelation of two different countries has run and returned 'war'
C30_DistinctWitness ==
  /\ dLast.op = "toggleRelation"
  /\ dLast.a # dLast.b
  /\ dLast.ret = "war"
  /\ getRelation(dLast.before, dLast.a, dLast.b) = "peace"

(***************************************************************************)
(* The raster                                                              *)
(*                                                                         *)
(* A pixel buffer is the flat row-major byte array of the source with the  *)
(* four bytes of a texel grouped into one tuple <<r, g, b, a>>: texel      *)
(* (x, y) is element y * MAP_WIDTH + x, as in idx = (y * width + x) * 4.   *)
(***************************************************************************)

\* the raster's dimensions (4096 x 2048 in the source)
MAP_WIDTH == 3
MAP_HEIGHT == 2

Texels == 0 .. (MAP_WIDTH * MAP_HEIGHT - 1)

\* a mutant: the column is not checked, only the index it leads to
InBoundsOfIndex(x, y) ==
  ~(y < 0 \/ y >= MAP_HEIGHT \/ y * MAP_WIDTH + x < 0 \/ y * MAP_WIDTH + x >= MAP_WIDTH * MAP_HEIGHT)

\* !(x < 0 || x >= MAP_WIDTH || y < 0 || y >= MAP_HEIGHT)
InBounds(x, y) == ~(x < 0 \/ x >= MAP_WIDTH \/ y < 0 \/ y >= MAP_HEIGHT)

TexelX(i) == i % MAP_WIDTH
TexelY(i) == i \div MAP_WIDTH

RGB(t) == <<t[1], t[2], t[3]>>

\* a THREE.Color channel c in [0,1] is held as the integer 510 * c, so that
\* c * 255 is a whole or a half number
\* Math.round(c * 255)
Round255(c) == (c + 1) \div 2

\* Math.max and Math.min
Max(a, b) == IF a >= b THEN a ELSE b
Min(a, b) == IF a <= b THEN a ELSE b

\* C17: setRelation(a, b, s) and toggleRelation(a, b) leave getRelation(c, d) as it was
\* for every unordered pair {c, d} other than {a, b}
C17_PairwiseFrame ==
  dLast.op \in {"setRelation", "toggleRelation"} =>
    \A c \in CountryIds, d \in CountryIds :
      {c, d} # {dLast.a, dLast.b} =>
        getRelation(diplomacyState, c, d) = getRelation(dLast.before, c, d)

\* a call that put b and c at war while a and b were at war, with a and c still at peace
C17_Witness ==
  /\ dLast.op \in {"setRelation", "toggleRelation"}
  /\ dLast.a # dLast.b
  /\ getRelation(dLast.before, dLast.a, dLast.b) = "peace"
  /\ getRelation(diplomacyState, dLast.a, dLast.b) = "war"
  /\ \E c \in CountryIds \ {dLast.a, dLast.b} :
       /\ getRelation(diplomacyState, c, dLast.a) = "war"
       /\ getRelation(diplomacyState, c, dLast.b) = "peace"

(***************************************************************************)
(* conquest.ts                                                             *)
(***************************************************************************)

\* The source computes positions in IEEE doubles; here they are exact rationals.
\* a path point (x, y) in [0,1]^2 is held as <<i, j>> with x = i / (SubPixel * MAP_WIDTH)
\* and y = j / (SubPixel * MAP_HEIGHT): its pixel coordinates are multiples of 1/SubPixel
SubPixel == 2

\* pixel coordinates of a path point, in units of 1/SubPixel:
\* new Vector2(p.x * width, (1 - p.y) * height)
ToPx(p) == <<p[1], SubPixel * MAP_HEIGHT - p[2]>>

RECURSIVE CeilSqrtFrom(_, _)
CeilSqrtFrom(n, d2) == IF (n * SubPixel) * (n * SubPixel) >= d2 THEN n ELSE CeilSqrtFrom(n + 1, d2)

\* Math.max(1, Math.ceil(startPx.distanceTo(endPx)))
StepCount(startPx, endPx) ==
  LET dx == endPx[1] - startPx[1]
      dy == endPx[2] - startPx[2]
  IN Max(1, CeilSqrtFrom(0, dx * dx + dy * dy))

\* Math.floor of a coordinate of startPx.clone().lerp(endPx, t / steps)
LerpFloor(a, b, t, steps) == (a * steps + (b - a) * t) \div (SubPixel * steps)

NEAR_WHITE == 240
NEAR_BLACK == 15

\* a mutant: the background test compares with 250
isNearWhiteLoose(er, eg, eb) == er > 250 /\ eg > 250 /\ eb > 250

isNearWhite(er, eg, eb) == er > NEAR_WHITE /\ eg > NEAR_WHITE /\ eb > NEAR_WHITE

isNearBlack(er, eg, eb) == er < NEAR_BLACK /\ eg < NEAR_BLACK /\ eb < NEAR_BLACK

\* a mutant: the diplomacy check is skipped
mayConquerAnyone(diplomacy, countryId, er, eg, eb) == TRUE

\* isAtWar(diplomacy, countryId, `${er}_${eg}_${eb}`)
mayConquer(diplomacy, countryId, er, eg, eb) ==
  isAtWar(diplomacy, countryId, KeyOfRGB(er, eg, eb))

\* a mutant: painted++ runs for every in-bounds candidate
conquerTexelCountAll(acc, px, py, pr, pg, pb, diplomacy, countryId) ==
  IF ~InBounds(px, py) THEN acc
  ELSE LET idx == py * MAP_WIDTH + px
           er == acc.data[idx][1]
           eg == acc.data[idx][2]
           eb == acc.data[idx][3]
       IN IF \/ (er = pr /\ eg = pg /\ eb = pb)
             \/ isNearWhite(er, eg, eb)
             \/ isNearBlack(er, eg, eb)
             \/ ~mayConquer(diplomacy, countryId, er, eg, eb)
          THEN [acc EXCEPT !.painted = @ + 1, !.indexed = @ \cup {<<px, py>>}]
          ELSE [data |-> [acc.data EXCEPT ![idx] = <<pr, pg, pb, 255>>],
                painted |-> acc.painted + 1,
                indexed |-> acc.indexed \cup {<<px, py>>}]

\* the body of the innermost loop for the candidate texel (px, py)
conquerTexel(acc, px, py, pr, pg, pb, diplomacy, countryId) ==
  IF ~InBounds(px, py) THEN acc
  ELSE LET idx == py * MAP_WIDTH + px
           er == acc.data[idx][1]
           eg == acc.data[idx][2]
           eb == acc.data[idx][3]
       IN IF \/ (er = pr /\ eg = pg /\ eb = pb)
             \/ isNearWhite(er, eg, eb)
             \/ isNearBlack(er, eg, eb)
             \/ ~mayConquer(diplomacy, countryId, er, eg, eb)
          THEN [acc EXCEPT !.indexed = @ \cup {<<px, py>>}]
          ELSE [data |-> [acc.data EXCEPT ![idx] = <<pr, pg, pb, 255>>],
                painted |-> acc.painted + 1,
                indexed |-> acc.indexed \cup {<<px, py>>}]

\* the (dx, dy) of the two inner loops that pass dx*dx + dy*dy <= radius*radius,
\* in loop order (dy outer, dx inner)
DiskOffsets(radius) ==
  LET n == 2 * radius + 1
      all == [k \in 1 .. (n * n) |-> <<((k - 1) % n) - radius, ((k - 1) \div n) - radius>>]
  IN SelectSeq(all, LAMBDA o : ~(o[1] * o[1] + o[2] * o[2] > radius * radius))

\* The loops are folds over the running [data, painted, indexed], indexed being the
\* positions (px, py) for which the body has computed idx and read data[idx]. TLC passes an operator's
\* argument unevaluated; the test acc.painted < 0, which never holds, makes each
\* round evaluate the accumulated value before the next round starts.
RECURSIVE conquerDisk(_, _, _, _, _, _)
\* the dy and dx loops around the sample whose floored position is (fx, fy);
\* c holds the call's pr, pg, pb, diplomacy and countryId
conquerDisk(acc, offs, k, fx, fy, c) ==
  IF k > Len(offs) \/ acc.painted < 0 THEN acc
  ELSE conquerDisk(conquerTexel(acc, fx + offs[k][1], fy + offs[k][2],
                                c.pr, c.pg, c.pb, c.diplomacy, c.countryId),
                   offs, k + 1, fx, fy, c)

RECURSIVE conquerSegment(_, _, _, _, _, _, _)
\* for (let t = 0; t <= steps; t++)
conquerSegment(acc, startPx, endPx, t, steps, offs, c) ==
  IF t > steps \/ acc.painted < 0 THEN acc
  ELSE conquerSegment(conquerDisk(acc, offs, 1,
                                  LerpFloor(startPx[1], endPx[1], t, steps),
                                  LerpFloor(startPx[2], endPx[2], t, steps), c),
                      startPx, endPx, t + 1, steps, offs, c)

RECURSIVE conquerPath(_, _, _, _, _)
\* for (let i = 0; i < path.length - 1; i++), i counted from 1 here
conquerPath(acc, path, i, offs, c) ==
  IF i > Len(path) - 1 \/ acc.painted < 0 THEN acc
  ELSE LET startPx == ToPx(path[i])
           endPx == ToPx(path[i + 1])
       IN conquerPath(conquerSegment(acc, startPx, endPx, 0, StepCount(startPx, endPx), offs, c),
                      path, i + 1, offs, c)

\* return { pixelsPainted: painted, needsUpdate: painted > 0 }, with the buffer and the
\* indexed positions that the loops end with
conquestResult(out) ==
  [data |-> out.data, pixelsPainted |-> out.painted, needsUpdate |-> out.painted > 0,
   indexed |-> out.indexed]

\* conquestAlongPath: the buffer after the call and the ConquestResult
conquestAlongPath(pixelData, path, color, radius, diplomacy, countryId) ==
  LET c == [pr |-> Round255(color[1]), pg |-> Round255(color[2]), pb |-> Round255(color[3]),
            diplomacy |-> diplomacy, countryId |-> countryId]
  IN conquestResult(conquerPath([data |-> pixelData, painted |-> 0, indexed |-> {}], path, 1,
                                DiskOffsets(radius), c))

(***************************************************************************)
(* conquestAlongPath driven as a function: a buffer, a path, a colour and  *)
(* a radius are chosen, relations are toggled, and the function is called, *)
(* possibly a second time on a fresh snapshot of the same buffer.          *)
(***************************************************************************)

\* the largest disk radius tried
MaxRadius == 1

\* texel values: the attacker's colour, an enemy colour just outside the near-white
\* range (translucent), a near-black and a near-white colour, and a neutral colour
\* just outside the near-black range
CqPalette ==
  << <<255, 0, 0, 255>>, <<240, 255, 255, 128>>, <<10, 10, 10, 255>>,
     <<241, 255, 250, 255>>, <<14, 15, 0, 255>> >>

\* buffer k holds the palette cyclically, starting at entry k
CqBuffers ==
  { [i \in Texels |-> CqPalette[((i + k) % Len(CqPalette)) + 1]] : k \in 1 .. Len(CqPalette) }

CqAttackerId == KeyOfRGB(255, 0, 0)

\* the colour keys whose relation with the attacker is toggled: entries 2 to 4
CqOtherIds ==
  { KeyOfRGB(CqPalette[k][1], CqPalette[k][2], CqPalette[k][3]) : k \in 2 .. 4 }

CqPaths ==
  LET w == SubPixel * MAP_WIDTH
      h == SubPixel * MAP_HEIGHT
  IN { << <<0, h>>, <<w, h>> >>,                    \* along the top row, ending at x = 1
       << <<1, h - 1>>, <<1, h - 1>> >>,            \* a path that does not move
       << <<SubPixel, SubPixel>>, <<w + SubPixel, 0>> >>,   \* leaves the raster
       << <<0, 0>>, <<SubPixel, SubPixel>>, <<w, h>> >>,    \* two segments
       << <<0, h>>, <<0, 0>> >> }                   \* down the left column

\* the attacker's THREE.Color (509/510, 0, 0), which rounds to (255, 0, 0)
CqColors == { <<509, 0, 0>> }

CqArgSets ==
  [path : CqPaths, color : CqColors, radius : 0 .. MaxRadius, countryId : {CqAttackerId}]

CqInit ==
  /\ diplomacyState = createDiplomacyState
  /\ dLast = NoCall
  /\ dBefore2 = NULL
  /\ cqData \in CqBuffers
  /\ cqArgs \in CqArgSets
  /\ cqResult = NULL
  /\ cqPrev = NULL
  /\ AppIdle
  /\ FnIdle

\* toggleRelation between the attacker and another colour key, before a call
CqToggle ==
  /\ cqArgs # NULL
  /\ cqResult = NULL
  /\ \E b \in CqOtherIds :
       diplomacyState' = toggleRelation(diplomacyState, cqArgs.countryId, b)
  /\ UNCHANGED <<dLast, dBefore2, cqVars, appVars, fnVars>>

AllAtPeace(data, diplomacy, countryId) ==
  \A i \in Texels : ~isAtWar(diplomacy, countryId, KeyOfRGB(data[i][1], data[i][2], data[i][3]))

CqCall ==
  /\ cqArgs # NULL
  /\ cqResult = NULL
  /\ LET r == conquestAlongPath(cqData, cqArgs.path, cqArgs.color, cqArgs.radius,
                                diplomacyState, cqArgs.countryId)
     IN /\ cqData' = r.data
        /\ cqResult' = Some([pixelsPainted |-> r.pixelsPainted, needsUpdate |-> r.needsUpdate,
                             before |-> cqData])
  /\ UNCHANGED <<dipVars, cqArgs, cqPrev, appVars, fnVars>>

\* the same path is walked again over a fresh snapshot of the same raster
CqFreshSnapshot ==
  /\ cqResult # NULL
  /\ cqPrev = NULL
  /\ cqData' = cqResult.val.before
  /\ cqPrev' = Some([pixelsPainted |-> cqResult.val.pixelsPainted,
                     peace |-> AllAtPeace(cqResult.val.before, diplomacyState, cqArgs.countryId)])
  /\ cqResult' = NULL
  /\ UNCHANGED <<dipVars, cqArgs, appVars, fnVars>>

CqNext == CqToggle \/ CqCall \/ CqFreshSnapshot

SpecConquest == CqInit /\ [][CqNext]_vars

(***************************************************************************)
(* Claims on conquestAlongPath                                             *)
(***************************************************************************)

CqBefore == cqResult.val.before
CqAttackerRGB == <<Round255(cqArgs.color[1]), Round255(cqArgs.color[2]), Round255(cqArgs.color[3])>>

\* the samples <<segment, t>> of the call's path
CqSampleSet ==
  UNION { { <<s, t>> : t \in 0 .. StepCount(ToPx(cqArgs.path[s]), ToPx(cqArgs.path[s + 1])) } :
          s \in 1 .. (Len(cqArgs.path) - 1) }

\* the samples whose disk holds texel i
CqCovering(i) ==
  { st \in CqSampleSet :
      LET a == ToPx(cqArgs.path[st[1]])
          b == ToPx(cqArgs.path[st[1] + 1])
          n == StepCount(a, b)
          ddx == TexelX(i) - LerpFloor(a[1], b[1], st[2], n)
          ddy == TexelY(i) - LerpFloor(a[2], b[2], st[2], n)
      IN ddx * ddx + ddy * ddy <= cqArgs.radius * cqArgs.radius }

\* the texels the path crosses, and those under the disks of several samples
CqCrossed == { i \in Texels : CqCovering(i) # {} }
CqCrossedTwice == { i \in Texels : Cardinality(CqCovering(i)) >= 2 }

CqSentinel(t) ==
  \/ (t[1] > 240 /\ t[2] > 240 /\ t[3] > 240)
  \/ (t[1] < 15 /\ t[2] < 15 /\ t[3] < 15)

CqAtWarWith(t) == isAtWar(diplomacyState, cqArgs.countryId, KeyOfRGB(t[1], t[2], t[3]))

\* C4: conquestAlongPath never overwrites a near-white texel (all channels > 240),
\* a near-black texel (all channels < 15) or a texel whose RGB is already the
\* attacker's colour, whatever the path, the radius and the relations.
C4_SentinelsKept ==
  cqResult # NULL =>
    \A i \in Texels :
      (CqSentinel(CqBefore[i]) \/ RGB(CqBefore[i]) = CqAttackerRGB) => cqData[i] = CqBefore[i]

\* a call that painted something while a near-white and a near-black texel, both
\* at war with the attacker, lay under its disks
C4_Witness ==
  /\ cqResult # NULL
  /\ cqResult.val.pixelsPainted > 0
  /\ \E i \in CqCrossed : CqBefore[i][1] > 240 /\ CqSentinel(CqBefore[i]) /\ CqAtWarWith(CqBefore[i])
  /\ \E i \in CqCrossed : CqBefore[i][1] < 15 /\ CqSentinel(CqBefore[i]) /\ CqAtWarWith(CqBefore[i])
  /\ \E i \in CqCrossed : RGB(CqBefore[i]) = CqAttackerRGB

\* C5 as stated: a texel is overwritten only if the attacker is at war with the
\* key of its colour; at peace the call changes nothing; and at war with a country
\* whose texels the path crosses, the call changes more than 0 texels.
C5_Original ==
  cqResult # NULL =>
    /\ \A i \in Texels : cqData[i] # CqBefore[i] => CqAtWarWith(CqBefore[i])
    /\ AllAtPeace(CqBefore, diplomacyState, cqArgs.countryId) => cqResult.val.pixelsPainted = 0
    /\ (\E i \in CqCrossed : CqAtWarWith(CqBefore[i])) => cqResult.val.pixelsPainted > 0

\* C5 as amended: the last part holds when a crossed texel of the country at war
\* is neither near-white nor near-black.
C5_WarGatesConquest ==
  /\ cqPrev # NULL => (cqPrev.val.peace => cqPrev.val.pixelsPainted = 0)
  /\ cqResult # NULL =>
       /\ \A i \in Texels : cqData[i] # CqBefore[i] => CqAtWarWith(CqBefore[i])
       /\ AllAtPeace(CqBefore, diplomacyState, cqArgs.countryId) => cqResult.val.pixelsPainted = 0
       /\ (\E i \in CqCrossed : CqAtWarWith(CqBefore[i]) /\ ~CqSentinel(CqBefore[i]))
             => cqResult.val.pixelsPainted > 0

\* scenario 3: at peace the path changed nothing; after toggleRelation the same
\* path on a fresh snapshot of the same raster changed something
C5_Witness ==
  /\ cqPrev # NULL
  /\ cqPrev.val.peace
  /\ cqPrev.val.pixelsPainted = 0
  /\ cqResult # NULL
  /\ cqResult.val.pixelsPainted > 0

\* C6: pixelsPainted is the number of texels whose colour the call changed, every
\* changed texel holds the attacker's colour with alpha 255, and needsUpdate is
\* true exactly when pixelsPainted > 0.
C6_CountIsChanged ==
  cqResult # NULL =>
    /\ cqResult.val.pixelsPainted
         = Cardinality({ i \in Texels : RGB(cqData[i]) # RGB(CqBefore[i]) })
    /\ \A i \in Texels :
         cqData[i] # CqBefore[i] =>
           cqData[i] = <<CqAttackerRGB[1], CqAttackerRGB[2], CqAttackerRGB[3], 255>>
    /\ cqResult.val.needsUpdate = (cqResult.val.pixelsPainted > 0)

\* a call that overwrote a translucent texel lying under the disks of two samples
C6_Witness ==
  /\ cqResult # NULL
  /\ \E i \in CqCrossedTwice : cqData[i] # CqBefore[i] /\ CqBefore[i][4] # 255

(***************************************************************************)
(* shaders.ts: the jump-flood pass                                         *)
(*                                                                         *)
(* A coordinate buffer of w x h texels is a function on 0 .. w * h - 1.    *)
(* The shaders store the value vUv of a seed texel, which is the centre    *)
(* ((x + 0.5) / w, (y + 0.5) / h) of texel (x, y), and (-1, -1) for "no     *)
(* seed"; the model holds <<x, y>> and NoSeed in its place. A squared      *)
(* distance of two vUv values is held multiplied by w * w * h * h, as an   *)
(* exact integer; the shader computes it in 32-bit floats.                 *)
(***************************************************************************)

\* vec4(-1.0, -1.0, 0.0, 1.0)
NoSeed == <<-1, -1>>

\* const jfaSteps = [32, 16, 8, 4, 2, 1]
jfaSteps == <<32, 16, 8, 4, 2, 1>>

\* a mutant: only the four neighbours along the axes are sampled
jfaNeighboursAxes == << <<0, -1>>, <<-1, 0>>, <<1, 0>>, <<0, 1>> >>

\* the offsets of n0 .. n7 in steps
jfaNeighbours ==
  << <<-1, -1>>, <<0, -1>>, <<1, -1>>, <<-1, 0>>, <<1, 0>>, <<-1, 1>>, <<0, 1>>, <<1, 1>> >>

Clamp(v, lo, hi) == IF v < lo THEN lo ELSE IF v > hi THEN hi ELSE v

\* texture2D(u_inputTexture, vUv + offset) at the centre of texel (x, y), the offset
\* being (dx, dy) texels: nearest filtering, and the wrap mode of a render target's
\* texture, clamp to edge
jfaSample(input, w, h, x, y, dx, dy) ==
  input[Clamp(y + dy, 0, h - 1) * w + Clamp(x + dx, 0, w - 1)]

\* dot(d, d) for d = vUv - n at texel (x, y)
jfaDistSq(w, h, x, y, n) ==
  (x - n[1]) * (x - n[1]) * h * h + (y - n[2]) * (y - n[2]) * w * w

\* CHECK_NEIGHBOR(n); best is [seed, far, d]: currentSeedPos, whether minDistSq is
\* still 1e10, and minDistSq otherwise
CHECK_NEIGHBOR(best, n, w, h, x, y) ==
  IF n[1] >= 0 /\ (best.far \/ jfaDistSq(w, h, x, y, n) < best.d)
  THEN [seed |-> n, far |-> FALSE, d |-> jfaDistSq(w, h, x, y, n)]
  ELSE best

RECURSIVE jfaCheckFrom(_, _, _, _, _, _, _, _)
\* CHECK_NEIGHBOR(n0) ... CHECK_NEIGHBOR(n7), from neighbour k on
jfaCheckFrom(best, k, input, w, h, x, y, step) ==
  IF k > Len(jfaNeighbours) THEN best.seed
  ELSE jfaCheckFrom(CHECK_NEIGHBOR(best,
                                   jfaSample(input, w, h, x, y,
                                             jfaNeighbours[k][1] * step,
                                             jfaNeighbours[k][2] * step),
                                   w, h, x, y),
                    k + 1, input, w, h, x, y, step)

\* one render of jfaFrag with u_stepSize = (step / w, step / h): the buffer it writes
jfaFrag(input, w, h, step) ==
  [i \in 0 .. (w * h - 1) |->
     LET x == i % w
         y == i \div w
         current == input[i]
     IN jfaCheckFrom([seed |-> current, far |-> current[1] < 0,
                      d |-> jfaDistSq(w, h, x, y, current)],
                     1, input, w, h, x, y, step)]

RECURSIVE jfaPasses(_, _, _, _)
\* for (const s of jfaSteps) { ... }, from step k on: the buffer the last pass writes
jfaPasses(input, w, h, k) ==
  IF k > Len(jfaSteps) THEN input
  ELSE jfaPasses(jfaFrag(input, w, h, jfaSteps[k]), w, h, k + 1)

(***************************************************************************)
(* jfaFrag run over a square field with one seed                           *)
(***************************************************************************)

\* the fields of every size up to this one are run with every seed position
MaxJfaSize == 4

RECURSIVE SumOf(_)
SumOf(seq) == IF seq = <<>> THEN 0 ELSE Head(seq) + SumOf(Tail(seq))

\* the number of texels a seed coordinate can travel along an axis in all passes
JfaReach == SumOf(jfaSteps)

\* the largest field whose corner texels are within JfaReach of each other, and the
\* next larger field: these are run with the seed in a corner
JfaLargeSizes == { JfaReach + 1, JfaReach + 2 }

\* the field with the one seed
SingleSeed(n, seed) ==
  [i \in 0 .. (n * n - 1) |-> IF i = seed[2] * n + seed[1] THEN seed ELSE NoSeed]

JfaInit ==
  /\ \/ /\ jfaSize \in 1 .. MaxJfaSize
        /\ jfaSeed \in (0 .. (jfaSize - 1)) \X (0 .. (jfaSize - 1))
     \/ /\ jfaSize \in JfaLargeSizes
        /\ jfaSeed \in { <<0, 0>>, <<jfaSize - 1, jfaSize - 1>> }
  /\ jfaField = SingleSeed(jfaSize, jfaSeed)
  /\ jfaPass = 0
  /\ jfaA = 1
  /\ jfaB = 2
  /\ jfaRT = [k \in 1 .. 2 |-> IF k = jfaA THEN SingleSeed(jfaSize, jfaSeed)
                                ELSE [i \in 0 .. (jfaSize * jfaSize - 1) |-> NoSeed]]
  /\ jfaTrace = <<[stage |-> "seed", read |-> 0, write |-> jfaA]>>
  /\ jfaDistance = NULL
  /\ LbIdle
  /\ CkIdle
  /\ Fn2Idle
  /\ AiIdle
  /\ diplomacyState = createDiplomacyState
  /\ dLast = NoCall
  /\ dBefore2 = NULL
  /\ CqIdle
  /\ AppIdle

\* a mutant: the pass samples the target it renders into
jfaInputSame(a, b) == b

\* jfaMat.uniforms.u_inputTexture.value = jfaA.texture
jfaInput(a, b) == a

\* 1 / maxDistance^2 for maxDistance = 0.008
MAX_DISTANCE_INV_SQ == 15625

\* distanceFieldFrag for texel (x, y) of a w x h field: clamp(dist / maxDistance, 0, 1)
\* is 1 (saturated), or it is the distance whose square, times w^2 h^2, is distSq
distanceFieldFrag(coords, w, h) ==
  [i \in DOMAIN coords |->
     IF coords[i] = NoSeed
          \/ jfaDistSq(w, h, i % w, i \div w, coords[i])
               >= (w * w * h * h + MAX_DISTANCE_INV_SQ - 1) \div MAX_DISTANCE_INV_SQ
     THEN [saturated |-> TRUE, distSq |-> 0]
     ELSE [saturated |-> FALSE, distSq |-> jfaDistSq(w, h, i % w, i \div w, coords[i])]]

\* the next pass of the loop of runJFA: the shader samples u_inputTexture, the scene is
\* rendered into jfaB, and the two variables are swapped. jfaField is taken through the
\* same pass on its own.
JfaPass ==
  /\ jfaSize > 0
  /\ jfaPass < Len(jfaSteps)
  /\ jfaField' = jfaFrag(jfaField, jfaSize, jfaSize, jfaSteps[jfaPass + 1])
  /\ jfaPass' = jfaPass + 1
  /\ jfaRT' = [jfaRT EXCEPT ![jfaB] = jfaFrag(jfaRT[jfaInput(jfaA, jfaB)], jfaSize, jfaSize,
                                              jfaSteps[jfaPass + 1])]
  /\ jfaTrace' = Append(jfaTrace, [stage |-> "pass", read |-> jfaInput(jfaA, jfaB),
                                   write |-> jfaB])
  /\ jfaA' = swap(jfaA, jfaB)[1]
  /\ jfaB' = swap(jfaA, jfaB)[2]
  /\ UNCHANGED <<jfaSize, jfaSeed, jfaDistance, lbVars, ckVars, aiVars, fn2Vars, dipVars, cqVars, appVars>>

\* the last stage of runJFA: distMat samples jfaA.texture and the scene is rendered into
\* distanceFieldRT (target 3)
JfaDistanceStage ==
  /\ jfaSize > 0
  /\ jfaPass = Len(jfaSteps)
  /\ jfaDistance = NULL
  /\ jfaDistance' = Some(distanceFieldFrag(jfaRT[jfaA], jfaSize, jfaSize))
  /\ jfaTrace' = Append(jfaTrace, [stage |-> "distance", read |-> jfaA, write |-> 3])
  /\ UNCHANGED <<jfaSize, jfaSeed, jfaField, jfaPass, jfaRT, jfaA, jfaB, lbVars, ckVars, aiVars, fn2Vars,
                 dipVars, cqVars, appVars>>

JfaNext == JfaPass \/ JfaDistanceStage

SpecJFA == JfaInit /\ [][JfaNext]_vars

\* the texels of the field, and those within JfaReach of the seed along both axes
JfaTexels == 0 .. (jfaSize * jfaSize - 1)
JfaWithinReach(i) ==
  /\ (i % jfaSize) - jfaSeed[1] <= JfaReach /\ jfaSeed[1] - (i % jfaSize) <= JfaReach
  /\ (i \div jfaSize) - jfaSeed[2] <= JfaReach /\ jfaSeed[2] - (i \div jfaSize) <= JfaReach

\* C12 as stated: after the six passes every texel of the field holds the seed's
\* coordinate, whatever the size of the field.
C12_Original ==
  jfaPass = Len(jfaSteps) => \A i \in JfaTexels : jfaField[i] = jfaSeed

\* C12 as amended: after the six passes a texel holds the seed's coordinate if and
\* only if it is at most 32+16+8+4+2+1 = 63 texels from the seed along both axes, so
\* that every texel holds it on a field of up to 64 x 64 texels.
C12_SeedWithinReach ==
  jfaPass = Len(jfaSteps) =>
    /\ \A i \in JfaTexels : (jfaField[i] = jfaSeed) = JfaWithinReach(i)
    /\ \A i \in JfaTexels : jfaField[i] \in {jfaSeed, NoSeed}
    /\ jfaSize <= JfaReach + 1 => \A i \in JfaTexels : jfaField[i] = jfaSeed

\* the passes have run on the 64 x 64 field with the seed in a corner
C12_Witness ==
  /\ jfaPass = Len(jfaSteps)
  /\ jfaSize = JfaReach + 1
  /\ jfaSeed = <<0, 0>>
  /\ jfaField[jfaSize * jfaSize - 1] = jfaSeed

\* C20: each of the six passes of runJFA samples the target that the stage before it
\* rendered into (the seeding stage for the first pass) and renders into the other one,
\* the distance stage samples the target of the last pass, and what each stage samples
\* is the field taken through the passes before it
C20_PingPong ==
  jfaSize > 0 =>
    /\ \A k \in 2 .. Len(jfaTrace) :
         /\ jfaTrace[k].read = jfaTrace[k - 1].write
         /\ jfaTrace[k].write # jfaTrace[k].read
    /\ \A k \in 1 .. Len(jfaTrace) :
         jfaTrace[k].stage = (IF k = 1 THEN "seed"
                              ELSE IF k <= Len(jfaSteps) + 1 THEN "pass" ELSE "distance")
    /\ jfaRT[jfaA] = jfaField
    /\ jfaDistance # NULL =>
         /\ jfaPass = Len(jfaSteps)
         /\ jfaDistance.val = distanceFieldFrag(jfaField, jfaSize, jfaSize)

\* the distance stage has run on a field whose two targets differ, after six passes
C20_Witness ==
  /\ jfaDistance # NULL
  /\ Len(jfaTrace) = Len(jfaSteps) + 2
  /\ jfaTrace[Len(jfaTrace)].read = jfaTrace[Len(jfaSteps) + 1].write
  /\ jfaSize > 1
  /\ \E i \in DOMAIN jfaDistance.val : ~jfaDistance.val[i].saturated

(***************************************************************************)
(* countryNaming.ts: the label of a country                                *)
(*                                                                         *)
(* The fitted k and m are held as exact fractions, a line as               *)
(* [type, kn, kd, mn, md] with k = kn / kd, m = mn / md and kd, md > 0,    *)
(* and a coordinate on a line as <<numerator, denominator>>. The code      *)
(* computes them in doubles.                                               *)
(***************************************************************************)

\* const tolerance = 5
TOLERANCE == 5
\* sampleRate = 4
SAMPLE_RATE == 4
\* if (count < 10) return null
MIN_SAMPLES == 10

\* const offsets = [-30, -15, 0, 15, 30]
labelOffsets == <<-30, -15, 0, 15, 30>>

Abs(n) == IF n < 0 THEN -n ELSE n

\* Math.sign
Sign(n) == IF n > 0 THEN 1 ELSE IF n < 0 THEN -1 ELSE 0

\* what indexing a Uint8Array outside its length gives
Undefined == <<-1000, -1000, -1000, -1000>>

\* pixelData[idx .. idx + 3] for idx = 4 * i
texelAt(pixelData, i) == IF i \in DOMAIN pixelData THEN pixelData[i] ELSE Undefined

\* Math.abs(pixelData[idx] - targetR) <= tolerance && ... for texel t
matchesTarget(t, target) ==
  /\ Abs(t[1] - target[1]) <= TOLERANCE
  /\ Abs(t[2] - target[2]) <= TOLERANCE
  /\ Abs(t[3] - target[3]) <= TOLERANCE

RECURSIVE GCD(_, _)
\* the greatest common divisor of two naturals
GCD(a, b) == IF b = 0 THEN a ELSE GCD(b, a % b)

\* the fraction n / d, d > 0, in lowest terms
Reduce(n, d) == LET g == GCD(Abs(n), d) IN <<n \div g, d \div g>>

RECURSIVE FracGreater(_, _, _, _)
\* p1 / q1 > p2 / q2 for naturals with q1, q2 > 0, by the integer parts and then the
\* inverted remainders, so that no product is formed
FracGreater(p1, q1, p2, q2) ==
  IF p1 \div q1 # p2 \div q2 THEN p1 \div q1 > p2 \div q2
  ELSE IF p1 % q1 = 0 THEN FALSE
  ELSE IF p2 % q2 = 0 THEN TRUE
  ELSE FracGreater(q2, p2 % q2, q1, p1 % q1)

\* a * b > c * d for naturals
ProductGreater(a, b, c, d) ==
  IF a = 0 \/ b = 0 THEN FALSE
  ELSE IF c = 0 \/ d = 0 THEN TRUE
  ELSE FracGreater(a, c, d, b)

\* a mutant: the numerator of k is taken with sumX twice
leastSquaresFitOfX(n, sumXY, sumX, sumY, sumXSqr) ==
  LET denom == n * sumXSqr - sumX * sumX
      knum == n * sumXY - sumX * sumX
  IN IF n < 2 THEN [kn |-> 0, kd |-> 1, mn |-> 0, md |-> 1]
     ELSE IF denom = 0
     THEN [kn |-> 0, kd |-> 1, mn |-> Reduce(sumY, n)[1], md |-> Reduce(sumY, n)[2]]
     ELSE LET k == Reduce(knum * Sign(denom), Abs(denom))
              m == Reduce(sumY * k[2] - k[1] * sumX, n * k[2])
          IN [kn |-> k[1], kd |-> k[2], mn |-> m[1], md |-> m[2]]

\* leastSquaresFit; the sums are integers, so that Math.abs(denom) < 1e-10 is denom = 0
leastSquaresFit(n, sumXY, sumX, sumY, sumXSqr) ==
  LET denom == n * sumXSqr - sumX * sumX
      knum == n * sumXY - sumX * sumY
  IN IF n < 2 THEN [kn |-> 0, kd |-> 1, mn |-> 0, md |-> 1]
     ELSE IF denom = 0
     THEN [kn |-> 0, kd |-> 1, mn |-> Reduce(sumY, n)[1], md |-> Reduce(sumY, n)[2]]
     ELSE LET k == Reduce(knum * Sign(denom), Abs(denom))
              \* m = (sumY - k * sumX) / n
              m == Reduce(sumY * k[2] - k[1] * sumX, n * k[2])
          IN [kn |-> k[1], kd |-> k[2], mn |-> m[1], md |-> m[2]]

RECURSIVE sampleRow(_, _, _, _, _, _, _)
\* for (let x = 0; x < width; x += sampleRate) { ... } of row y, from x on; acc is
\* [sumX, sumY, sumXSqr, sumYSqr, sumXY, count]
sampleRow(acc, x, y, pixelData, width, target, sampleRate) ==
  IF x >= width \/ acc.count < 0 THEN acc
  ELSE sampleRow(IF matchesTarget(texelAt(pixelData, y * width + x), target)
                 THEN [sumX |-> acc.sumX + x, sumY |-> acc.sumY + y,
                       sumXSqr |-> acc.sumXSqr + x * x, sumYSqr |-> acc.sumYSqr + y * y,
                       sumXY |-> acc.sumXY + x * y, count |-> acc.count + 1]
                 ELSE acc,
                 x + sampleRate, y, pixelData, width, target, sampleRate)

RECURSIVE sampleSums(_, _, _, _, _, _, _)
\* for (let y = 0; y < height; y += sampleRate) { ... }, from y on
sampleSums(acc, y, pixelData, width, height, target, sampleRate) ==
  IF y >= height \/ acc.count < 0 THEN acc
  ELSE sampleSums(sampleRow(acc, 0, y, pixelData, width, target, sampleRate),
                  y + sampleRate, pixelData, width, height, target, sampleRate)

\* a mutant: ten samples are not enough
tooFewSamplesTen(count) == count <= MIN_SAMPLES

\* count < 10
tooFewSamples(count) == count < MIN_SAMPLES

\* the sums of the sampling loops of analyzeCountryPixels with the default sampleRate = 4
sampledSums(pixelData, width, height, target) ==
  sampleSums([sumX |-> 0, sumY |-> 0, sumXSqr |-> 0, sumYSqr |-> 0, sumXY |-> 0, count |-> 0],
             0, pixelData, width, height, target, SAMPLE_RATE)

\* { lineYKX: { type: 'YKX', k: kYKX, m: mYKX }, lineXKY: { type: 'XKY', k: kXKY, m: mXKY } }
fittedLines(sums) ==
  [lineYKX |-> [type |-> "YKX"] @@
               leastSquaresFit(sums.count, sums.sumXY, sums.sumX, sums.sumY, sums.sumXSqr),
   lineXKY |-> [type |-> "XKY"] @@
               leastSquaresFit(sums.count, sums.sumXY, sums.sumY, sums.sumX, sums.sumYSqr)]

\* analyzeCountryPixels called with a sampleRate: NULL, or the two fitted lines
analyzeCountryPixelsAt(pixelData, width, height, target, sampleRate) ==
  LET sums == sampleSums([sumX |-> 0, sumY |-> 0, sumXSqr |-> 0, sumYSqr |-> 0, sumXY |-> 0,
                          count |-> 0],
                         0, pixelData, width, height, target, sampleRate)
  IN IF tooFewSamples(sums.count) THEN NULL ELSE Some(fittedLines(sums))

\* analyzeCountryPixels: NULL, or the two fitted lines
analyzeCountryPixels(pixelData, width, height, target) ==
  LET sums == sampledSums(pixelData, width, height, target)
  IN IF tooFewSamples(sums.count) THEN NULL ELSE Some(fittedLines(sums))

\* { ...line, m: line.m + offset }
withOffset(line, offset) == [line EXCEPT !.mn = @ + offset * line.md]

\* line.k * i + line.m
lineAt(line, i) == Reduce(line.kn * i * line.md + line.mn * line.kd, line.kd * line.md)

\* iterate(i): the position [x, y] of step i
iterate(line, i) ==
  IF line.type = "YKX" THEN [x |-> <<i, 1>>, y |-> lineAt(line, i)]
  ELSE [x |-> lineAt(line, i), y |-> <<i, 1>>]

\* Math.floor of a fraction with a positive denominator
Floor(q) == q[1] \div q[2]

\* !(x < 0 || x >= width || y < 0 || y >= height)
insideRaster(pos, width, height) ==
  ~(pos.x[1] < 0 \/ pos.x[1] >= width * pos.x[2] \/ pos.y[1] < 0 \/ pos.y[1] >= height * pos.y[2])

\* the texel <<x, y>> that idx = (Math.floor(y) * width + Math.floor(x)) * 4 addresses
texelOf(pos) == <<Floor(pos.x), Floor(pos.y)>>

\* isValid(x, y)
isValid(pixelData, width, height, target, pos) ==
  IF ~insideRaster(pos, width, height) THEN FALSE
  ELSE matchesTarget(texelAt(pixelData, texelOf(pos)[2] * width + texelOf(pos)[1]), target)

\* the texels that the isValid calls of a traceLineSegment call index
traceIndexed(width, height, line) ==
  LET max == IF line.type = "YKX" THEN width ELSE height
  IN { texelOf(iterate(line, i)) :
         i \in { j \in 0 .. (max - 1) : insideRaster(iterate(line, j), width, height) } }

RECURSIVE traceRuns(_, _, _, _, _, _, _)
\* the loop of traceLineSegment from step i on; acc is [segments, start, end], a segment
\* [from, to] holding the steps of its start and of its end, start and end NULL or a step
traceRuns(acc, i, pixelData, width, height, target, line) ==
  LET max == IF line.type = "YKX" THEN width ELSE height
  IN IF Len(acc.segments) < 0 THEN acc
     ELSE IF i >= max
     THEN (IF acc.start # NULL /\ acc.end # NULL
           THEN Append(acc.segments, [from |-> acc.start.val, to |-> acc.end.val])
           ELSE acc.segments)
     ELSE traceRuns(IF isValid(pixelData, width, height, target, iterate(line, i))
                    THEN [segments |-> acc.segments,
                          start |-> IF acc.start = NULL THEN Some(i) ELSE acc.start,
                          end |-> Some(i)]
                    ELSE IF acc.start # NULL /\ acc.end # NULL
                    THEN [segments |-> Append(acc.segments,
                                              [from |-> acc.start.val, to |-> acc.end.val]),
                          start |-> NULL, end |-> NULL]
                    ELSE acc,
                    i + 1, pixelData, width, height, target, line)

\* b.length > a.length for two segments: the squared length of a segment of a line is
\* (to - from)^2 * (kd^2 + kn^2) / kd^2
longerThan(b, a) ==
  ProductGreater((b.to - b.from) * (b.to - b.from)
                   * (b.line.kd * b.line.kd + b.line.kn * b.line.kn),
                 a.line.kd * a.line.kd,
                 (a.to - a.from) * (a.to - a.from)
                   * (a.line.kd * a.line.kd + a.line.kn * a.line.kn),
                 b.line.kd * b.line.kd)

RECURSIVE longest(_, _, _)
\* list.reduce((a, b) => b.length > a.length ? b : a), from element k on
longest(a, list, k) ==
  IF k > Len(list) THEN a
  ELSE longest(IF longerThan(list[k], a) THEN list[k] ELSE a, list, k + 1)

\* traceLineSegment: NULL, or the longest segment [line, from, to]
traceLineSegment(pixelData, width, height, target, line) ==
  LET runs == traceRuns([segments |-> <<>>, start |-> NULL, end |-> NULL], 0,
                        pixelData, width, height, target, line)
      segments == [k \in 1 .. Len(runs) |-> [line |-> line, from |-> runs[k].from,
                                               to |-> runs[k].to]]
  IN IF Len(segments) = 0 THEN NULL ELSE Some(longest(segments[1], segments, 2))

\* end - start of a segment, as [dy, dx]: along a line the one coordinate advances by
\* to - from and the other by k times that
segmentDelta(seg) ==
  IF seg.line.type = "YKX"
  THEN [dy |-> <<seg.line.kn * (seg.to - seg.from), seg.line.kd>>, dx |-> <<seg.to - seg.from, 1>>]
  ELSE [dy |-> <<seg.to - seg.from, 1>>, dx |-> <<seg.line.kn * (seg.to - seg.from), seg.line.kd>>]

\* a mutant: only the angles below -pi/2 are turned
beyondQuarterBelow(dy, dx) == IF dx[1] < 0 /\ dy[1] < 0 THEN "below" ELSE "within"

\* where Math.atan2(dy, dx) lies: "above" when angle > Math.PI / 2, "below" when
\* angle < -Math.PI / 2, else "within"
beyondQuarter(dy, dx) ==
  IF dx[1] < 0 /\ dy[1] >= 0 THEN "above"
  ELSE IF dx[1] < 0 /\ dy[1] < 0 THEN "below"
  ELSE "within"

\* normalizeTextDirection: { start, end, angle }, the ends exchanged and the angle turned
\* by pi when atan2 of the delta is outside [-pi/2, pi/2]. The angle is held as the
\* [dy, dx] whose atan2 it is: angle - pi and angle + pi are atan2(-dy, -dx)
normalizeTextDirection(seg) ==
  LET d == segmentDelta(seg)
  IN IF beyondQuarter(d.dy, d.dx) # "within"
     THEN [line |-> seg.line, from |-> seg.to, to |-> seg.from,
           angle |-> [dy |-> <<-d.dy[1], d.dy[2]>>, dx |-> <<-d.dx[1], d.dx[2]>>]]
     ELSE [line |-> seg.line, from |-> seg.from, to |-> seg.to, angle |-> d]

RECURSIVE traceCandidates(_, _, _, _, _, _, _)
\* the loop of findBestLine over the offsets, from offset k on
traceCandidates(k, pixelData, width, height, target, lineYKX, lineXKY) ==
  IF k > Len(labelOffsets) THEN <<>>
  ELSE LET segYKX == traceLineSegment(pixelData, width, height, target,
                                      withOffset(lineYKX, labelOffsets[k]))
           segXKY == traceLineSegment(pixelData, width, height, target,
                                      withOffset(lineXKY, labelOffsets[k]))
       IN (IF segYKX # NULL THEN <<segYKX.val>> ELSE <<>>)
          \o (IF segXKY # NULL THEN <<segXKY.val>> ELSE <<>>)
          \o traceCandidates(k + 1, pixelData, width, height, target, lineYKX, lineXKY)

\* findBestLine: NULL, or the longest of the traced segments with its direction normalised
findBestLine(pixelData, width, height, target, lineYKX, lineXKY) ==
  LET candidates == traceCandidates(1, pixelData, width, height, target, lineYKX, lineXKY)
  IN IF Len(candidates) = 0 THEN NULL
     ELSE Some(normalizeTextDirection(longest(candidates[1], candidates, 2)))

\* Math.round(targetColor.r * 255), and so for g and b
targetBytes(targetColor) ==
  <<Round255(targetColor[1]), Round255(targetColor[2]), Round255(targetColor[3])>>

\* createCountryLabel: NULL, or the label as its baseline (the character positions and
\* the angle, which are computed from the baseline, are not held)
createCountryLabel(pixelData, width, height, targetColor) ==
  LET target == targetBytes(targetColor)
      analysis == analyzeCountryPixels(pixelData, width, height, target)
  IN IF analysis = NULL THEN NULL
     ELSE LET bestLine == findBestLine(pixelData, width, height, target,
                                       analysis.val.lineYKX, analysis.val.lineXKY)
          IN IF bestLine = NULL THEN NULL
             ELSE Some([baseline |-> bestLine.val])

(***************************************************************************)
(* createCountryLabel driven on its own, on rasters of LbWidth x LbHeight  *)
(* texels that hold a country in a colour at the edge of the tolerance     *)
(***************************************************************************)

LbWidth == 25
LbHeight == 5
\* the number of texels by which a raster differs from its pattern
MaxFlips == 2

\* the colour asked for, its channels in units of 1 / 510
LbTarget == <<400, 0, 0>>
\* a texel within the tolerance of LbTarget on every channel, and one outside it on one
LbNear == <<205, 0, 5, 255>>
LbOff == <<206, 0, 0, 255>>

\* the sampled texels up to column maxX
LbDots(maxX) ==
  { p \in (0 .. (LbWidth - 1)) \X (0 .. (LbHeight - 1)) :
      p[1] % SAMPLE_RATE = 0 /\ p[2] % SAMPLE_RATE = 0 /\ p[1] <= maxX }

\* the patterns: the country fills the raster, is absent, or holds only sampled texels,
\* twelve (no fitted line meets one) or ten of them
LbPatterns ==
  { (0 .. (LbWidth - 1)) \X (0 .. (LbHeight - 1)), {}, LbDots(20), LbDots(16) }

\* the texels that may differ from the pattern
LbFlips == { <<0, 0>>, <<4, 0>>, <<16, 4>>, <<20, 4>>, <<24, 0>>, <<24, 4>>, <<10, 2>>, <<12, 0>> }

\* the raster that holds the country on the texels of set
LbRaster(set) ==
  [i \in 0 .. (LbWidth * LbHeight - 1) |->
     IF <<i % LbWidth, i \div LbWidth>> \in set THEN LbNear ELSE LbOff]

LbInit ==
  /\ \E pattern \in LbPatterns :
       \E flips \in { f \in SUBSET LbFlips : Cardinality(f) <= MaxFlips } :
         lbData = LbRaster((pattern \ flips) \cup (flips \ pattern))
  /\ lbResult = NULL
  /\ JfaIdle
  /\ CkIdle
  /\ Fn2Idle
  /\ AiIdle
  /\ diplomacyState = createDiplomacyState
  /\ dLast = NoCall
  /\ dBefore2 = NULL
  /\ CqIdle
  /\ AppIdle

\* a call of createCountryLabel
LbCall ==
  /\ lbData # <<>>
  /\ lbResult = NULL
  /\ lbResult' = Some([label |-> createCountryLabel(lbData, LbWidth, LbHeight, LbTarget)])
  /\ UNCHANGED <<lbData, jfaVars, ckVars, aiVars, fn2Vars, dipVars, cqVars, appVars>>

LbNext == LbCall

SpecLabel == LbInit /\ [][LbNext]_vars

\* the number of sampled texels of lbData within the tolerance of the target
LbCount ==
  Cardinality({ p \in LbDots(LbWidth) :
                  matchesTarget(lbData[p[2] * LbWidth + p[1]], targetBytes(LbTarget)) })

\* the ten lines that findBestLine traces on lbData
LbLines ==
  LET lines == fittedLines(sampledSums(lbData, LbWidth, LbHeight, targetBytes(LbTarget)))
  IN { withOffset(lines.lineYKX, labelOffsets[k]) : k \in 1 .. Len(labelOffsets) }
     \cup { withOffset(lines.lineXKY, labelOffsets[k]) : k \in 1 .. Len(labelOffsets) }

\* line holds a position inside the raster whose texel is within the tolerance
LbHits(line) ==
  \E i \in 0 .. ((IF line.type = "YKX" THEN LbWidth ELSE LbHeight) - 1) :
    LET pos == iterate(line, i)
    IN /\ insideRaster(pos, LbWidth, LbHeight)
       /\ matchesTarget(lbData[Floor(pos.y) * LbWidth + Floor(pos.x)], targetBytes(LbTarget))

\* C15: createCountryLabel returns null when fewer than 10 sampled texels are within the
\* tolerance of the target colour or when none of the ten traced lines holds such a
\* texel, and a label in every other case
C15_NullOrLabel ==
  lbResult # NULL =>
    (lbResult.val.label = NULL <=> (LbCount < 10 \/ \A line \in LbLines : ~LbHits(line)))

\* a call that found enough samples and no texel of the country on any of the ten lines
C15_Witness ==
  /\ lbResult # NULL
  /\ lbResult.val.label = NULL
  /\ LbCount >= 10
  /\ \E line \in LbLines : \E i \in 0 .. (LbHeight - 1) :
       iterate(line, i).x[1] = LbWidth * iterate(line, i).x[2]

(***************************************************************************)
(* The editor page (main.ts): the raster and its commands                  *)
(*                                                                         *)
(* A canvas position (x, y), the value of screenToCanvas, is held as       *)
(* <<i, j>> with x = i / SubPixel and y = j / SubPixel.                    *)
(***************************************************************************)

\* renderer.setClearColor(0xffffff, 1); renderer.clear()
WHITE == <<255, 255, 255, 255>>
ClearedTarget == [i \in Texels |-> WHITE]

\* the contents of a render target that has never been rendered to
BlankTarget == [i \in Texels |-> <<0, 0, 0, 0>>]

\* uploadPixels: the copy shader renders the data into paintA and into paintB
uploadPixels(targets, a, b, data) == [targets EXCEPT ![a] = data, ![b] = data]

\* a mutant: the fill does not look below the current texel
fillNeighboursNoDown(cx, cy) == <<cx + 1, cy, cx - 1, cy, cx, cy + 1>>

\* stack.push(cx + 1, cy, cx - 1, cy, cx, cy + 1, cx, cy - 1)
fillNeighbours(cx, cy) == <<cx + 1, cy, cx - 1, cy, cx, cy + 1, cx, cy - 1>>

\* a mutant: only the red channel is compared with the target colour
differsFromTargetRedOnly(t, target) == t[1] # target[1]

\* data[pi] !== tr || data[pi + 1] !== tg || data[pi + 2] !== tb
differsFromTarget(t, target) == t[1] # target[1] \/ t[2] # target[2] \/ t[3] # target[3]

\* a mutant: the fill runs even when the seed already has the fill colour
alreadyFilledNever(target, fill) == FALSE

\* tr === fr && tg === fg && tb === fb
alreadyFilled(target, fill) == target[1] = fill[1] /\ target[2] = fill[2] /\ target[3] = fill[3]

RECURSIVE fillLoop(_, _, _)
\* the while loop of floodFill; st is [data, visited, stack, indexed], indexed being
\* the positions (cx, cy) for which the loop has computed idx and read visited[idx]
fillLoop(st, target, fill) ==
  IF st.stack = <<>> THEN st
  ELSE LET n == Len(st.stack)
           cy == st.stack[n]
           cx == st.stack[n - 1]
           rest == [st EXCEPT !.stack = SubSeq(st.stack, 1, n - 2)]
           read == [rest EXCEPT !.indexed = @ \cup {<<cx, cy>>}]
           idx == cy * MAP_WIDTH + cx
       IN IF ~InBounds(cx, cy) THEN fillLoop(rest, target, fill)
          ELSE IF idx \in st.visited THEN fillLoop(read, target, fill)
          ELSE IF differsFromTarget(st.data[idx], target) THEN fillLoop(read, target, fill)
          ELSE fillLoop([data |-> [st.data EXCEPT ![idx] = <<fill[1], fill[2], fill[3], 255>>],
                         visited |-> st.visited \cup {idx},
                         stack |-> rest.stack \o fillNeighbours(cx, cy),
                         indexed |-> read.indexed],
                        target, fill)

\* uploadPixels(data) is reached with what the loop ends with
filled(out) == [uploads |-> TRUE, data |-> out.data, indexed |-> out.indexed]

\* floodFill(startX, startY, fillColor) on the pixels read from paintA:
\* whether uploadPixels is reached, the data it uploads, and the positions for which
\* the call has computed an index into data
floodFill(data, startPos, fillColor) ==
  LET x == startPos[1] \div SubPixel
      y == startPos[2] \div SubPixel
      target == RGB(data[y * MAP_WIDTH + x])
      fill == <<Round255(fillColor[1]), Round255(fillColor[2]), Round255(fillColor[3])>>
  IN IF ~InBounds(x, y) THEN [uploads |-> FALSE, data |-> data, indexed |-> {}]
     ELSE IF alreadyFilled(target, fill)
     THEN [uploads |-> FALSE, data |-> data, indexed |-> {<<x, y>>}]
     ELSE filled(fillLoop([data |-> data, visited |-> {}, stack |-> <<x, y>>,
                           indexed |-> {<<x, y>>}], target, fill))

\* paintFrag for texel i: whether dist < uBrushSize, with every length multiplied by
\* 2 * SubPixel. When a = b the shader divides 0 by 0, whose result GLSL leaves
\* undefined: nanPaints tells whether the build then paints the disk around a.
brushCovers(i, a, b, size, nanPaints) ==
  LET px == (2 * TexelX(i) + 1) * SubPixel
      py == (2 * TexelY(i) + 1) * SubPixel
      pax == px - 2 * a[1]
      pay == py - 2 * a[2]
      bax == 2 * (b[1] - a[1])
      bay == 2 * (b[2] - a[2])
      pbx == px - 2 * b[1]
      pby == py - 2 * b[2]
      L == bax * bax + bay * bay
      T == pax * bax + pay * bay
      R2 == (2 * SubPixel * size) * (2 * SubPixel * size)
      pa2 == pax * pax + pay * pay
  IN IF L = 0 THEN nanPaints /\ pa2 < R2
     ELSE IF T <= 0 THEN pa2 < R2
     ELSE IF T >= L THEN pbx * pbx + pby * pby < R2
     ELSE pa2 * L - T * T < R2 * L

\* the render of paintFrag: vec4(uBrushColor, 1.0) where the brush covers, else the
\* texel of the sampled texture
paintFrag(sampled, a, b, size, color, nanPaints) ==
  [i \in Texels |->
     IF brushCovers(i, a, b, size, nanPaints)
     THEN <<Round255(color[1]), Round255(color[2]), Round255(color[3]), 255>>
     ELSE sampled[i]]

\* one more raster write since the last frame
written(n) == IF n = 0 THEN 1 ELSE 2

\* a mutant: a raster write leaves the dirty flag as it was
markDirtyKeep(flag) == flag

\* needsUpdate = true
markDirty(flag) == TRUE

\* uBrushSize, the value of the brush size slider
BrushSize == 1

\* the number of paint and floodFill calls the editor is given
MaxEdits == 2

\* the number of images that may be decoding at a time
MaxImages == 1

\* colorPicker.value as a THREE.Color: green
EdColors == { <<0, 510, 0>> }

\* where the mouse is clicked in fill mode: in the first texel of the last row, in
\* the second texel of the first row, and right of the raster
EdFillPoints ==
  { <<1, SubPixel * MAP_HEIGHT - 1>>, <<SubPixel + 1, 1>>, <<SubPixel * MAP_WIDTH, 1>> }

\* where the mouse is pressed and dragged while painting: texel corners
EdStrokePoints == { <<0, 0>>, <<SubPixel * MAP_WIDTH, SubPixel>> }

RED == <<255, 0, 0, 255>>
GREEN == <<0, 255, 0, 255>>

\* the save files offered to loadMap: [version, image], the image given as the
\* raster its copy into a render target produces. The first image has a red column,
\* one texel of it translucent, and a checkerboard of green and white right of it;
\* the second file has a version that loadMap rejects. The first file names the green
\* country and holds no city; files with cities are the ones saveMap writes.
EdFiles ==
  << [version |-> 2, image |-> [i \in Texels |->
                                  IF TexelX(i) = 0
                                  THEN (IF TexelY(i) = 0 THEN <<255, 0, 0, 128>> ELSE RED)
                                  ELSE IF (TexelX(i) + TexelY(i)) % 2 = 0 THEN GREEN
                                  ELSE WHITE],
      countries |-> { [id |-> <<0, 255, 0>>, color |-> <<0, 510, 0>>] },
      cities |-> <<>>, cityIdCounter |-> 0],
     [version |-> 3, image |-> [i \in Texels |-> GREEN],
      countries |-> {}, cities |-> <<>>, cityIdCounter |-> 0] >>

\* the rows of a raster in the opposite order: buildSaveData writes row y of the target
\* to row MAP_HEIGHT - 1 - y of the image, and the texture of a decoded image is
\* uploaded with flipY
flipY(data) == [i \in Texels |-> data[(MAP_HEIGHT - 1 - TexelY(i)) * MAP_WIDTH + TexelX(i)]]

\* the parsed record of the file f that is picked: one of EdFiles, or one that saveMap
\* has written, its image given as the raster its copy into a render target produces
EdFile(f) ==
  IF f <= Len(EdFiles) THEN EdFiles[f]
  ELSE [edSaved[f - Len(EdFiles)] EXCEPT !.image = flipY(@)]

\* the files that can be picked
EdPicks == 1 .. (Len(EdFiles) + Len(edSaved))

\* Map.prototype.delete
MapDelete(map, key) == [k \in DOMAIN map \ {key} |-> map[k]]

\* createTextState: nothing is rendered
createTextState == [countryMeshes |-> EmptyMap, cityMeshes |-> EmptyMap]

\* the page after main.ts has run: two render targets, cleared by the clear() call
EdInit ==
  /\ rt = [k \in 1 .. 2 |-> ClearedTarget]
  /\ edRef = ClearedTarget
  /\ paintA = 1
  /\ paintB = 2
  /\ uTexture = 2
  /\ u_colorMap = 1
  /\ isPainting = FALSE
  /\ isFillMode = FALSE
  /\ prevPos = <<-1000 * SubPixel, -1000 * SubPixel>>
  /\ currPos = <<-1000 * SubPixel, -1000 * SubPixel>>
  /\ edImages = <<>>
  /\ edits = 0
  /\ eLast = NoCall
  /\ eRepeat = NULL
  /\ cities = EmptyMap
  /\ countryLabels = EmptyMap
  /\ textState = createTextState
  /\ cityIdCounter = 0
  /\ editingCityId = NULL
  /\ pendingCityPosition = NULL
  /\ edSaved = <<>>
  /\ needsUpdate = TRUE
  /\ distanceFieldRT = NULL
  /\ frame = NULL
  /\ writes = 1
  /\ jfaRuns = NULL

EdFrame == UNCHANGED <<dipVars, cqVars, page, startLoad, gameVars, fnVars>>

\* the cities, the labels and what is rendered of them stay as they are
EdText == UNCHANGED txVars

\* paint() with the brush at curr, coming from prev: the shader samples uTexture, which
\* is set to paintB.texture after the swap, and the scene is rendered into paintA
paint(prev, curr, color, nanPaints) ==
  /\ paintA' = swap(paintA, paintB)[1]
  /\ paintB' = swap(paintA, paintB)[2]
  /\ uTexture' = paintB'
  /\ \E out \in {paintFrag(rt[uTexture'], prev, curr, BrushSize, color, nanPaints)} :
       /\ rt' = [rt EXCEPT ![paintA'] = out]
       \* the same shader on the reference raster: on the same input it gives out
       /\ edRef' = IF edRef = rt[uTexture'] THEN out
                   ELSE paintFrag(edRef, prev, curr, BrushSize, color, nanPaints)
  /\ eLast' = [op |-> "paint", sampled |-> uTexture', target |-> paintA',
               latest |-> rt[uTexture'] = edRef]
  /\ needsUpdate' = markDirty(needsUpdate)
  /\ writes' = written(writes)
  /\ jfaRuns' = NULL

\* the floodFill call of the mousedown handler
EdFloodFill(pos, color) ==
  \E r \in {floodFill(rt[paintA], pos, color)} :
     /\ rt' = IF r.uploads THEN uploadPixels(rt, paintA, paintB, r.data) ELSE rt
     \* the same fill of the reference raster: on the same input it gives r.data
     /\ edRef' = IF edRef = rt[paintA] THEN r.data ELSE floodFill(edRef, pos, color).data
     /\ needsUpdate' = IF r.uploads THEN markDirty(needsUpdate) ELSE needsUpdate
     /\ writes' = IF r.uploads THEN written(writes) ELSE writes
     /\ jfaRuns' = IF r.uploads THEN NULL ELSE jfaRuns
     /\ eLast' = [op |-> "floodFill", pos |-> pos, color |-> color, before |-> rt[paintA],
                  uploads |-> r.uploads]
     /\ eRepeat' = IF eLast.op = "floodFill" /\ eLast.pos = pos /\ eLast.color = color
                   THEN Some(eLast) ELSE NULL
     /\ UNCHANGED <<paintA, paintB, uTexture, isPainting, prevPos, currPos>>

\* canvas mousedown, left button, with no city marker under the mouse and neither the
\* naming nor the city mode on
EdMouseDown ==
  /\ page = "editor"
  /\ edits < MaxEdits
  /\ edits' = edits + 1
  /\ \E color \in EdColors :
       IF isFillMode
       THEN \E pos \in EdFillPoints : EdFloodFill(pos, color)
       ELSE \E pos \in EdStrokePoints, nanPaints \in BOOLEAN :
              /\ isPainting' = TRUE
              /\ currPos' = pos
              /\ prevPos' = pos
              /\ paint(pos, pos, color, nanPaints)
              /\ eRepeat' = NULL
  /\ UNCHANGED <<u_colorMap, isFillMode, edImages, distanceFieldRT, frame>>
  /\ EdText
  /\ EdFrame

\* canvas mousemove
EdMouseMove ==
  /\ page = "editor"
  /\ isPainting
  /\ edits < MaxEdits
  /\ edits' = edits + 1
  /\ \E color \in EdColors, pos \in EdStrokePoints, nanPaints \in BOOLEAN :
       /\ prevPos' = currPos
       /\ currPos' = pos
       /\ paint(currPos, pos, color, nanPaints)
  /\ eRepeat' = NULL
  /\ UNCHANGED <<u_colorMap, isPainting, isFillMode, edImages, distanceFieldRT, frame>>
  /\ EdText
  /\ EdFrame

\* canvas mouseup and mouseleave
EdMouseUp ==
  /\ page = "editor"
  /\ isPainting
  /\ isPainting' = FALSE
  /\ UNCHANGED <<rt, edRef, paintA, paintB, uTexture, u_colorMap, isFillMode, prevPos, currPos,
                 edImages, edits, eLast, eRepeat, dispVars>>
  /\ EdText
  /\ EdFrame

\* the fill button
EdFillBtn ==
  /\ page = "editor"
  /\ isFillMode' = ~isFillMode
  /\ UNCHANGED <<rt, edRef, paintA, paintB, uTexture, u_colorMap, isPainting, prevPos, currPos,
                 edImages, edits, eLast, eRepeat, dispVars>>
  /\ EdText
  /\ EdFrame

\* clear(): both targets are cleared to white
\* clearAll of textRendering.ts: removeLabel for every label id and removeCity for
\* every city id
clearAll(state) == [countryMeshes |-> EmptyMap, cityMeshes |-> EmptyMap]

\* clear(): both paint targets are cleared to white, every mesh of the text state is
\* removed and the Map of the country labels is emptied
clear ==
  /\ rt' = [rt EXCEPT ![paintA] = ClearedTarget, ![paintB] = ClearedTarget]
  /\ edRef' = ClearedTarget
  /\ needsUpdate' = markDirty(needsUpdate)
  /\ writes' = written(writes)
  /\ jfaRuns' = NULL
  /\ textState' = clearAll(textState)
  /\ countryLabels' = EmptyMap

\* the clear button
EdClear ==
  /\ page = "editor"
  /\ clear
  /\ eLast' = [op |-> "clear"]
  /\ eRepeat' = NULL
  /\ UNCHANGED <<paintA, paintB, uTexture, u_colorMap, isPainting, isFillMode, prevPos, currPos,
                 edImages, edits, distanceFieldRT, frame>>
  /\ UNCHANGED <<cities, cityIdCounter, editingCityId, pendingCityPosition, edSaved>>
  /\ EdFrame

\* the version check of loadMap and of loadFromStorage
supportedVersion(version) == ~(version # 1 /\ version # 2)

\* loadMap and loadFromStorage from the version check on, with the parsed record
\* EdFile(f): a rejected record, or clear(), cities.clear() and an image that starts to
\* decode
edLoadRecord(f) ==
  /\ IF ~supportedVersion(EdFile(f).version)
     THEN UNCHANGED <<rt, edRef, needsUpdate, writes, jfaRuns, edImages, eLast, eRepeat,
                      textState, countryLabels, cities>>
     ELSE /\ clear
          /\ cities' = EmptyMap
          /\ edImages' = Append(edImages, f)
          /\ eLast' = [op |-> "loadMap"]
          /\ eRepeat' = NULL
  /\ UNCHANGED <<paintA, paintB, uTexture, u_colorMap, isPainting, isFillMode, prevPos, currPos,
                 edits, distanceFieldRT, frame>>
  /\ UNCHANGED <<cityIdCounter, editingCityId, pendingCityPosition, edSaved>>

\* loadMap, reader.onload: the file f has been read and parsed
EdFileReadOf(f) ==
  /\ page = "editor"
  /\ Len(edImages) < MaxImages
  /\ edLoadRecord(f)
  /\ EdFrame

EdFileRead == \E f \in EdPicks : EdFileReadOf(f)

\* loadFromStorage of main.ts, after getScenario has given the record f
EdLoadFromStorageOf(f) ==
  /\ page = "editor"
  /\ startLoad = "library"
  /\ startLoad' = "none"
  /\ Len(edImages) < MaxImages
  /\ edLoadRecord(f)
  /\ UNCHANGED <<dipVars, cqVars, page, gameVars, fnVars>>

EdLoadFromStorage == \E f \in 1 .. Len(EdFiles) : EdLoadFromStorageOf(f)

\* for (const c of data.countries): the labels that createCountryLabel gives on the
\* pixels, by country id
labelsMade(pixels, countries) ==
  LET made == { c \in countries :
                  createCountryLabel(pixels, MAP_WIDTH, MAP_HEIGHT, c.color) # NULL }
  IN [id \in { c.id : c \in made } |->
        createCountryLabel(pixels, MAP_WIDTH, MAP_HEIGHT,
                           (CHOOSE c \in made : c.id = id).color).val]

\* countryLabels.set(c.id, label), and addLabel, for each label made
\* the labels made from the library's files, which are the same at every load
EdLibraryLabels ==
  [f \in 1 .. Len(EdFiles) |-> labelsMade(EdFiles[f].image, EdFiles[f].countries)]

\* the labels img.onload makes from the file f, whose record is data
labelsOf(f, data) ==
  IF f <= Len(EdFiles) THEN EdLibraryLabels[f] ELSE labelsMade(data.image, data.countries)

setLabels(map, made) ==
  [id \in DOMAIN map \cup DOMAIN made |-> IF id \in DOMAIN made THEN made[id] ELSE map[id]]

\* cities.set(c.id, city), and addCity, for each city of the record
setCities(map, saved) ==
  [id \in DOMAIN map \cup DOMAIN saved |-> IF id \in DOMAIN saved THEN saved[id] ELSE map[id]]

\* img.onload of loadMap and of loadFromStorage: the k-th image that is decoding has
\* been decoded and is rendered into both targets
EdImgLoadOf(k) ==
  /\ page = "editor"
  /\ k \in 1 .. Len(edImages)
  /\ rt' = [rt EXCEPT ![paintA] = EdFile(edImages[k]).image,
                      ![paintB] = EdFile(edImages[k]).image]
  /\ edRef' = EdFile(edImages[k]).image
  /\ \E data \in {EdFile(edImages[k])} :
       \E made \in {labelsOf(edImages[k], data)} :
         /\ countryLabels' = setLabels(countryLabels, made)
         /\ textState' = [countryMeshes |-> setLabels(textState.countryMeshes, made),
                          cityMeshes |-> setCities(textState.cityMeshes, data.cities)]
         /\ cities' = setCities(cities, data.cities)
         /\ cityIdCounter' = data.cityIdCounter
  /\ UNCHANGED <<editingCityId, pendingCityPosition, edSaved>>
  /\ edImages' = SubSeq(edImages, 1, k - 1) \o SubSeq(edImages, k + 1, Len(edImages))
  /\ needsUpdate' = markDirty(needsUpdate)
  /\ writes' = written(writes)
  /\ jfaRuns' = NULL
  /\ eLast' = [op |-> "img.onload"]
  /\ eRepeat' = NULL
  /\ UNCHANGED <<paintA, paintB, uTexture, u_colorMap, isPainting, isFillMode, prevPos, currPos,
                 edits, distanceFieldRT, frame>>
  /\ EdFrame

EdImgLoad == \E k \in 1 .. Len(edImages) : EdImgLoadOf(k)

(***************************************************************************)
(* The city dialog and saveMap of the editor                                *)
(***************************************************************************)

\* the files saveMap writes, at most
MaxSaves == 1
\* the ids city_0 .. that saveCity gives out, at most
MaxCityId == 2

\* cityNameInput.value.trim(): empty, or one of two names
CityNames == {"", "A", "B"}
\* where on the canvas the mouse is clicked in city mode
CityPoints == { <<1, 1>> }

\* the city dialog, the file save and what they leave alone on the page
EdRasterSame ==
  UNCHANGED <<rt, edRef, paintA, paintB, uTexture, u_colorMap, isPainting, isFillMode, prevPos,
              currPos, edImages, edits, dispVars>>

\* removeCity of textRendering.ts
removeCity(state, cityId) == [state EXCEPT !.cityMeshes = MapDelete(@, cityId)]

\* addCity of textRendering.ts: removeCity, then the marker and the characters of the
\* city are put into the scene and held under the id
addCity(state, city, cityId) ==
  [removeCity(state, cityId) EXCEPT !.cityMeshes = MapSet(@, cityId, city)]

\* buildSaveData
buildSaveData ==
  [version |-> 1,
   image |-> flipY(rt[paintA]),
   countries |-> { [id |-> id, color |-> countryLabels[id].color] : id \in DOMAIN countryLabels },
   cities |-> cities,
   cityIdCounter |-> cityIdCounter]

\* saveMap: the record is written to a file (and, by saveToStorage, to the library,
\* which is read when the page starts)
EdSaveMap ==
  /\ page = "editor"
  /\ Len(edSaved) < MaxSaves
  /\ edSaved' = Append(edSaved, buildSaveData)
  /\ eLast' = [op |-> "saveMap"]
  /\ eRepeat' = NULL
  /\ UNCHANGED <<cities, countryLabels, textState, cityIdCounter, editingCityId,
                 pendingCityPosition>>
  /\ EdRasterSame
  /\ EdFrame

\* canvas mousedown, left button, on the marker of the city cityId, which
\* checkCityClick finds among the markers of the text state
EdCityClickOf(cityId) ==
  /\ page = "editor"
  /\ cityId \in DOMAIN textState.cityMeshes
  /\ editingCityId' = Some(cityId)
  /\ pendingCityPosition' = NULL
  /\ eLast' = [op |-> "cityClick"]
  /\ eRepeat' = NULL
  /\ UNCHANGED <<cities, countryLabels, textState, cityIdCounter, edSaved>>
  /\ EdRasterSame
  /\ EdFrame

EdCityClick == \E cityId \in 0 .. (MaxCityId - 1) : EdCityClickOf(cityId)

\* canvas mousedown, left button, in city mode and off every marker: openCityDialogAt
EdOpenCityDialogAt(x, y) ==
  /\ page = "editor"
  /\ pendingCityPosition' = Some(<<Reduce(x, MAP_WIDTH), Reduce(MAP_HEIGHT - y, MAP_HEIGHT)>>)
  /\ editingCityId' = NULL
  /\ eLast' = [op |-> "openCityDialogAt"]
  /\ eRepeat' = NULL
  /\ UNCHANGED <<cities, countryLabels, textState, cityIdCounter, edSaved>>
  /\ EdRasterSame
  /\ EdFrame

EdOpenCityDialog == \E pos \in CityPoints : EdOpenCityDialogAt(pos[1], pos[2])

\* hideCityDialog
hideCityDialog ==
  /\ pendingCityPosition' = NULL
  /\ editingCityId' = NULL

\* saveCity with the name and the size 3 in the dialog; with editingCityId set and
\* no such city in the Map, cities.get(editingCityId)!.position throws and the
\* handler ends there
saveCity(name) ==
  IF name = ""
  THEN hideCityDialog /\ UNCHANGED <<cities, textState, cityIdCounter>>
  ELSE IF editingCityId # NULL
  THEN IF editingCityId.val \notin DOMAIN cities
       THEN UNCHANGED <<cities, textState, cityIdCounter, editingCityId, pendingCityPosition>>
       ELSE \E city \in {[position |-> cities[editingCityId.val].position, name |-> name,
                          size |-> 3]} :
              /\ cities' = MapSet(cities, editingCityId.val, city)
              /\ textState' = addCity(textState, city, editingCityId.val)
              /\ hideCityDialog
              /\ UNCHANGED cityIdCounter
  ELSE IF pendingCityPosition # NULL
  THEN \E city \in {[position |-> pendingCityPosition.val, name |-> name, size |-> 3]} :
         /\ cityIdCounter' = cityIdCounter + 1
         /\ cities' = MapSet(cities, cityIdCounter, city)
         /\ textState' = addCity(textState, city, cityIdCounter)
         /\ hideCityDialog
  ELSE hideCityDialog /\ UNCHANGED <<cities, textState, cityIdCounter>>

\* the save button of the city dialog, and Enter in its name field
EdSaveCity ==
  /\ page = "editor"
  /\ cityIdCounter < MaxCityId
  /\ \E name \in CityNames : saveCity(name)
  /\ eLast' = [op |-> "saveCity"]
  /\ eRepeat' = NULL
  /\ UNCHANGED <<countryLabels, edSaved>>
  /\ EdRasterSame
  /\ EdFrame

\* deleteCity
deleteCity ==
  /\ IF editingCityId # NULL
     THEN /\ textState' = removeCity(textState, editingCityId.val)
          /\ cities' = MapDelete(cities, editingCityId.val)
     ELSE UNCHANGED <<cities, textState>>
  /\ hideCityDialog

\* the delete button of the city dialog
EdDeleteCity ==
  /\ page = "editor"
  /\ deleteCity
  /\ eLast' = [op |-> "deleteCity"]
  /\ eRepeat' = NULL
  /\ UNCHANGED <<countryLabels, cityIdCounter, edSaved>>
  /\ EdRasterSame
  /\ EdFrame

\* the editor with its cities: the clear button, the loads, saveMap and the city dialog
TextNext ==
  \/ EdClear
  \/ EdFileRead
  \/ EdLoadFromStorage
  \/ EdImgLoad
  \/ EdSaveMap
  \/ EdCityClick
  \/ EdOpenCityDialog
  \/ EdSaveCity
  \/ EdDeleteCity

\* a mutant: the frame runs runJFA whatever the flag
runsJFAAlways(flag) == TRUE

\* if (needsUpdate) { runJFA(); needsUpdate = false; }
runsJFA(flag) == flag

\* what a frame did about runJFA: the number of runJFA calls, with the raster writes
\* since the frame before and the dirty flag as the frame found them
FrameRuns(flag, n) == [runs |-> IF runsJFA(flag) THEN 1 ELSE 0, writes |-> n, dirty |-> flag]

\* what renderer.render(displayScene, displayCamera) shows, given the raster of the
\* page, the texture bound as u_colorMap and the raster the bound overlay was computed
\* from: whether the overlay shown was computed from the raster's contents, and
\* whether the colours shown are the raster's
Displayed(raster, colorMap, field) ==
  [overlayOfRaster |-> field = Some(raster), colorsOfRaster |-> colorMap = raster]

\* animate() of main.ts; runJFA reads paintA and binds paintA.texture as u_colorMap
EdAnimate ==
  /\ page = "editor"
  /\ distanceFieldRT' = IF runsJFA(needsUpdate) THEN Some(rt[paintA]) ELSE distanceFieldRT
  /\ u_colorMap' = IF runsJFA(needsUpdate) THEN paintA ELSE u_colorMap
  /\ needsUpdate' = FALSE
  /\ writes' = 0
  /\ jfaRuns' = Some(FrameRuns(needsUpdate, writes))
  /\ frame' = Some(Displayed(rt[paintA], rt[u_colorMap'], distanceFieldRT'))
  /\ UNCHANGED <<rt, edRef, paintA, paintB, uTexture, isPainting, isFillMode, prevPos, currPos,
                 edImages, edits, eLast, eRepeat>>
  /\ EdText
  /\ EdFrame

(***************************************************************************)
(* The game page (game.ts): units, movement and conquest                   *)
(*                                                                         *)
(* A unit position (x, y) in [0,1]^2 is held like a path point of          *)
(* conquest.ts, as <<i, j>> with x = i / (SubPixel * MAP_WIDTH) and        *)
(* y = j / (SubPixel * MAP_HEIGHT).                                        *)
(***************************************************************************)

RECURSIVE NumberOf(_)
\* Number(s) for a string of decimal digits (Number('') is 0)
NumberOf(s) ==
  IF s = <<>> THEN 0
  ELSE 10 * NumberOf(SubSeq(s, 1, Len(s) - 1)) + (s[Len(s)] - 48)

RECURSIVE split(_, _)
\* s.split(sep) for a one-character separator
split(s, sep) ==
  IF \A k \in 1 .. Len(s) : s[k] # sep THEN <<s>>
  ELSE LET k == CHOOSE k \in 1 .. Len(s) : s[k] = sep /\ \A l \in 1 .. (k - 1) : s[l] # sep
       IN <<SubSeq(s, 1, k - 1)>> \o split(SubSeq(s, k + 1, Len(s)), sep)

\* a mutant: the channels are read in the order b, g, r
keyToColorBGR(key) ==
  LET parts == split(key, UNDERSCORE)
  IN <<2 * NumberOf(parts[3]), 2 * NumberOf(parts[2]), 2 * NumberOf(parts[1])>>

\* keyToColor: the channel r / 255, held as 510 * (r / 255)
keyToColor(key) ==
  LET parts == split(key, UNDERSCORE)
  IN <<2 * NumberOf(parts[1]), 2 * NumberOf(parts[2]), 2 * NumberOf(parts[3])>>

\* colorToKey
colorToKey(color) == KeyOfRGB(Round255(color[1]), Round255(color[2]), Round255(color[3]))

(***************************************************************************)
(* colorToKey and keyToColor driven as functions: a key or a colour is     *)
(* chosen and taken through both conversions                               *)
(***************************************************************************)

\* the keys: every value of the red channel, with green and blue of one, two and three
\* digits
CkKeys == { KeyOfRGB(r, g, b) : r \in 0 .. 255, g \in {0, 10, 255}, b \in {7, 99, 128} }

\* the colours: every multiple of 1 / 510 on the red channel, which holds the channels
\* r / 255 and the channels half way between two of them, with green and blue at the
\* ends and near the middle of [0, 1]
CkColors == (0 .. 510) \X {0, 253, 510} \X {1, 255, 509}

CkInit ==
  /\ \/ \E key \in CkKeys : ckArg = Some([key |-> key])
     \/ \E color \in CkColors : ckArg = Some([color |-> color])
  /\ ckOut = NULL
  /\ JfaIdle
  /\ LbIdle
  /\ AiIdle
  /\ Fn2Idle
  /\ diplomacyState = createDiplomacyState
  /\ dLast = NoCall
  /\ dBefore2 = NULL
  /\ CqIdle
  /\ AppIdle

\* colorToKey(keyToColor(key))
CkKeyRoundTrip ==
  /\ ckArg # NULL
  /\ ckOut = NULL
  /\ "key" \in DOMAIN ckArg.val
  /\ ckOut' = Some([key |-> colorToKey(keyToColor(ckArg.val.key))])
  /\ UNCHANGED <<ckArg, jfaVars, lbVars, aiVars, fn2Vars, dipVars, cqVars, appVars>>

\* keyToColor(colorToKey(color))
CkColorRoundTrip ==
  /\ ckArg # NULL
  /\ ckOut = NULL
  /\ "color" \in DOMAIN ckArg.val
  /\ ckOut' = Some([color |-> keyToColor(colorToKey(ckArg.val.color))])
  /\ UNCHANGED <<ckArg, jfaVars, lbVars, aiVars, fn2Vars, dipVars, cqVars, appVars>>

CkNext == CkKeyRoundTrip \/ CkColorRoundTrip

SpecColorKey == CkInit /\ [][CkNext]_vars

\* C16: colorToKey(keyToColor(k)) is k for a key k of three 8-bit channel values, and
\* keyToColor(colorToKey(c)) differs from c by at most 1 / 255 (2 / 510) on each channel
\* for a colour c with channels in [0, 1]
C16_RoundTrip ==
  ckOut # NULL =>
    /\ "key" \in DOMAIN ckArg.val => ckOut.val.key = ckArg.val.key
    /\ "color" \in DOMAIN ckArg.val =>
         \A ch \in 1 .. 3 : Abs(ckOut.val.color[ch] - ckArg.val.color[ch]) <= 2

\* the round trip of a colour whose red channel is half way between two 8-bit values,
\* which comes back changed
C16_Witness ==
  /\ ckOut # NULL
  /\ "color" \in DOMAIN ckArg.val
  /\ ckArg.val.color[1] % 2 = 1
  /\ ckOut.val.color[1] # ckArg.val.color[1]

\* the speed startMovement is given by the right-click handler, 0.15, in hundredths
DEFAULT_SPEED == 15

\* the number of loads and user commands the game is given
MaxCommands == 2

GameRed == KeyOfRGB(255, 0, 0)
GameBlue == KeyOfRGB(0, 0, 255)

\* saveData.countries of every file, as the list of the ids
GameCountryIds == <<GameRed, GameBlue>>

\* the save files given to loadMap: the image as the raster its copy into paintRT
\* produces; units and diplomacy may be missing
GameFiles ==
  << [version |-> 2,
      image |-> [i \in Texels |-> IF TexelX(i) = 0 THEN RED ELSE <<0, 0, 255, 255>>],
      units |-> Some(<< [id |-> "unit_0", countryId |-> GameRed, strength |-> 30,
                         position |-> <<0, MAP_HEIGHT>>],
                        [id |-> "unit_1", countryId |-> GameBlue, strength |-> 10,
                         position |-> <<SubPixel * MAP_WIDTH, MAP_HEIGHT>>] >>),
      diplomacy |-> Some(<< [key |-> GameBlue \o <<BAR>> \o GameRed, status |-> "war"] >>)],
     [version |-> 1,
      image |-> [i \in Texels |-> IF i = 0 THEN WHITE ELSE <<0, 0, 255, 255>>],
      units |-> NULL,
      diplomacy |-> NULL],
     [version |-> 3,
      image |-> [i \in Texels |-> RED],
      units |-> NULL,
      diplomacy |-> Some(<< [key |-> GameBlue \o <<BAR>> \o GameRed, status |-> "war"] >>)] >>

\* where the right mouse button is clicked, as worldToUV gives it
GameTargets == { <<SubPixel * MAP_WIDTH, MAP_HEIGHT>>, <<0, 0>> }

\* the time between two frames, in the unit in which a task of the default speed
\* moves by dt / (SubPixel * MAP_WIDTH * MAP_HEIGHT): a short and a long frame
GameFrameTimes == { MAP_WIDTH * MAP_HEIGHT, 2 * SubPixel * MAP_WIDTH * MAP_HEIGHT }

\* removeUnit
removeUnit(state, unitId) ==
  [units |-> [id \in DOMAIN state.units \ {unitId} |-> state.units[id]],
   selectedUnitId |-> IF state.selectedUnitId = Some(unitId) THEN NULL ELSE state.selectedUnitId]

\* addUnit
addUnit(state, unit) ==
  LET removed == removeUnit(state, unit.id)
  IN [removed EXCEPT !.units = MapSet(removed.units, unit.id, unit)]

RECURSIVE addUnits(_, _, _)
\* for (const u of saveData.units) addUnit(...)
addUnits(state, list, k) ==
  IF k > Len(list) THEN state
  ELSE addUnits(addUnit(state, list[k]), list, k + 1)

\* getSelectedUnit
getSelectedUnit(state) ==
  IF state.selectedUnitId # NULL /\ state.selectedUnitId.val \in DOMAIN state.units
  THEN Some(state.units[state.selectedUnitId.val])
  ELSE NULL

\* startMovement without its filter: the new task is pushed beside the old ones
startMovementKeep(tasks, unitId, path, speed) ==
  IF Len(path) < 2 THEN tasks
  ELSE Append(tasks, [unitId |-> unitId, path |-> path, currentIndex |-> 0, speed |-> speed])

\* startMovement(manager, unitId, path, speed): the unit's tasks are filtered out, and
\* a path of fewer than 2 points ends the call there (no caller passes onComplete)
startMovement(tasks, unitId, path, speed) ==
  LET filtered == SelectSeq(tasks, LAMBDA t : t.unitId # unitId)
  IN IF Len(path) < 2 THEN filtered
     ELSE Append(filtered, [unitId |-> unitId, path |-> path, currentIndex |-> 0, speed |-> speed])

\* a mutant: the unit is not moved
MoveStill(speed, dt) == 0

\* task.speed * dt, in units of 1 / (SubPixel * MAP_WIDTH * MAP_HEIGHT)
MoveOf(speed, dt) == (speed * dt) \div DEFAULT_SPEED

\* move >= unit.position.distanceTo(target)
Arrives(pos, target, move) ==
  LET di == target[1] - pos[1]
      dj == target[2] - pos[2]
  IN move * move >= di * di * MAP_HEIGHT * MAP_HEIGHT + dj * dj * MAP_WIDTH * MAP_WIDTH


\* unit.position + normalize(target - unit.position) * move, along an axis
StepToward(pos, target, move) ==
  IF target[2] = pos[2]
  THEN <<pos[1] + Sign(target[1] - pos[1]) * (move \div MAP_HEIGHT), pos[2]>>
  ELSE <<pos[1], pos[2] + Sign(target[2] - pos[2]) * (move \div MAP_WIDTH)>>

\* the step of a frame is a position the model can hold: the unit arrives, or it
\* moves along an axis by a whole number of position units
Representable(pos, target, move) ==
  \/ Arrives(pos, target, move)
  \/ target[2] = pos[2] /\ move % MAP_HEIGHT = 0
  \/ target[1] = pos[1] /\ move % MAP_WIDTH = 0

\* the end of the loop's body: the unit has moved to newPos and conquestAlongPath has
\* returned result
movedTask(st, k, newPos, arrives, result) ==
  LET task == st.tasks[k]
  IN [units |-> [st.units EXCEPT ![task.unitId].position = newPos],
      tasks |-> IF arrives THEN [st.tasks EXCEPT ![k].currentIndex = @ + 1] ELSE st.tasks,
      cached |-> Some(result.data),
      paintRT |-> IF result.needsUpdate THEN result.data ELSE st.paintRT,
      needsUpdate |-> IF result.needsUpdate THEN markDirty(st.needsUpdate)
                      ELSE st.needsUpdate,
      writes |-> IF result.needsUpdate THEN written(st.writes) ELSE st.writes,
      completed |-> IF arrives /\ task.currentIndex + 1 >= Len(task.path) - 1
                    THEN st.completed \cup {task.unitId} ELSE st.completed]

\* the body of animate's loop for one task; st is [units, tasks, cached, paintRT,
\* needsUpdate, writes, completed], k the task's index
animateTask(st, k, dt, diplomacy) ==
  LET task == st.tasks[k]
      unit == st.units[task.unitId]
      target == task.path[task.currentIndex + 2]
      pixels == IF st.cached = NULL THEN st.paintRT ELSE st.cached.val
      move == MoveOf(task.speed, dt)
      arrives == Arrives(unit.position, target, move)
      newPos == IF arrives THEN target ELSE StepToward(unit.position, target, move)
      result == conquestAlongPath(pixels, <<unit.position, newPos>>, keyToColor(unit.countryId),
                                  Max(3, unit.strength \div 10), diplomacy, unit.countryId)
  IN IF task.unitId \notin DOMAIN st.units
     THEN [st EXCEPT !.completed = @ \cup {task.unitId}]
     ELSE IF task.currentIndex + 2 > Len(task.path)
     THEN [st EXCEPT !.completed = @ \cup {task.unitId}]
     ELSE movedTask(st, k, newPos, arrives, result)

RECURSIVE animateTasks(_, _, _, _)
\* for (const task of movementManager.activeTasks) { ... }
animateTasks(st, k, dt, diplomacy) ==
  IF k > Len(st.tasks) \/ st.needsUpdate \notin BOOLEAN THEN st
  ELSE animateTasks(animateTask(st, k, dt, diplomacy), k + 1, dt, diplomacy)

\* the page after game.ts has run: with loadScenarioId set loadFromStorage has been
\* called, and otherwise, if a map was handed over as currentMap, loadMap has been
\* called with it and is suspended at its await
GameInit ==
  /\ paintRT = BlankTarget
  /\ cachedPixelData = NULL
  /\ unitState = [units |-> EmptyMap, selectedUnitId |-> NULL]
  /\ activeTasks = <<>>
  /\ gameLoads \in {<<>>} \cup { <<f>> : f \in 1 .. Len(GameFiles) }
  /\ startLoad = "library" => gameLoads = <<>>
  /\ loadLog = [last |-> 0, overlapped |-> FALSE]
  /\ aiRequests = <<>>
  /\ frames = 0
  /\ commands = 0
  /\ needsUpdate = FALSE
  /\ distanceFieldRT = NULL
  /\ frame = NULL
  /\ writes = 0
  /\ jfaRuns = NULL

GameFrame == UNCHANGED <<cqVars, page, startLoad, edVars, fnVars, frames>>

\* parseMapFile with the parsed record: null for a version it does not support
parseMapFile(data) == IF data.version # 1 /\ data.version # 2 THEN NULL ELSE Some(data)

\* the units of these ids leave unitState.units (units.clear(), or removeUnit in
\* addUnit): a call of executeAICommand that awaits its reply keeps the unit it had
\* selected, where the unit was
detach(requests, units, ids) ==
  [k \in 1 .. Len(requests) |->
     IF requests[k].detached = NULL /\ requests[k].id \in DOMAIN units \cap ids
     THEN [requests[k] EXCEPT !.detached = Some(units[requests[k].id].position)]
     ELSE requests[k]]

\* the record of overlapping loads is kept while a call is suspended and in the state
\* in which the last one has settled; the next step of the page starts a new record
loadLogKept ==
  IF gameLoads = <<>> THEN [last |-> 0, overlapped |-> FALSE] ELSE loadLog

\* loadMap(saveData) up to its await, saveData being GameFiles[f]: units and tasks
\* are dropped, the image starts to decode (every file names the countries of
\* GameCountryIds; labels and cities are not part of this model)
loadMapStart(f) ==
  /\ unitState' = [units |-> EmptyMap,
                   selectedUnitId |-> IF getSelectedUnit(unitState) # NULL THEN NULL
                                      ELSE unitState.selectedUnitId]
  /\ activeTasks' = <<>>
  /\ gameLoads' = Append(gameLoads, f)
  /\ loadLog' = IF gameLoads # <<>> THEN [last |-> f, overlapped |-> TRUE] ELSE loadLogKept
  /\ aiRequests' = detach(aiRequests, unitState.units, DOMAIN unitState.units)
  /\ UNCHANGED <<paintRT, cachedPixelData, dispVars, dipVars>>

\* the load input: parseMapFile, and loadMap if it gives a record
GameLoadMapOf(f) ==
  /\ page = "game"
  /\ commands < MaxCommands
  /\ commands' = commands + 1
  /\ IF parseMapFile(GameFiles[f]) = NULL
     THEN UNCHANGED <<unitState, activeTasks, gameLoads, loadLog, aiRequests, paintRT, cachedPixelData,
                      dispVars,
                      dipVars>>
     ELSE loadMapStart(f)
  /\ GameFrame

GameLoadMap == \E f \in 1 .. Len(GameFiles) : GameLoadMapOf(f)

\* loadFromStorage of game.ts, after getScenario has given the record f
GameLoadFromStorageOf(f) ==
  /\ page = "game"
  /\ startLoad = "library"
  /\ startLoad' = "none"
  /\ commands < MaxCommands
  /\ commands' = commands + 1
  /\ IF GameFiles[f].version = 1 \/ GameFiles[f].version = 2
     THEN loadMapStart(f)
     ELSE UNCHANGED <<unitState, activeTasks, gameLoads, loadLog, aiRequests, paintRT, cachedPixelData,
                      dispVars,
                      dipVars>>
  /\ UNCHANGED <<cqVars, page, edVars, fnVars, frames>>

GameLoadFromStorage == \E f \in 1 .. Len(GameFiles) : GameLoadFromStorageOf(f)

\* loadMap after its await, for the k-th call that is suspended: the image is rendered
\* into paintRT, units and relations are taken from the record
GameLoadMapResumeOf(k) ==
  /\ page = "game"
  /\ k \in 1 .. Len(gameLoads)
  /\ LET saveData == GameFiles[gameLoads[k]]
     IN /\ paintRT' = saveData.image
        /\ cachedPixelData' = Some(saveData.image)
        /\ unitState' = IF saveData.units # NULL
                        THEN addUnits(unitState, saveData.units.val, 1) ELSE unitState
        /\ aiRequests' = IF saveData.units # NULL
                         THEN detach(aiRequests, unitState.units,
                                     { saveData.units.val[i].id : i \in DOMAIN saveData.units.val })
                         ELSE aiRequests
        /\ DipDeserialize(saveData.diplomacy)
        /\ gameLoads' = SubSeq(gameLoads, 1, k - 1) \o SubSeq(gameLoads, k + 1, Len(gameLoads))
  /\ needsUpdate' = markDirty(needsUpdate)
  /\ writes' = written(writes)
  /\ jfaRuns' = NULL
  /\ UNCHANGED <<activeTasks, loadLog, commands, distanceFieldRT, frame>>
  /\ GameFrame

GameLoadMapResume == \E k \in 1 .. Len(gameLoads) : GameLoadMapResumeOf(k)

\* canvas mousedown, left button, outside the unit place mode: checkUnitClick finds a
\* unit or none
GameClick ==
  /\ page = "game"
  /\ \E clicked \in {NULL} \cup { Some(id) : id \in DOMAIN unitState.units } :
       unitState' = [unitState EXCEPT !.selectedUnitId = clicked]
  /\ loadLog' = loadLogKept
  /\ UNCHANGED <<paintRT, cachedPixelData, activeTasks, gameLoads, aiRequests, commands,
                 dispVars, dipVars>>
  /\ GameFrame

\* canvas mousedown, right button without shift, a unit being selected
GameRightClick ==
  /\ page = "game"
  /\ commands < MaxCommands
  /\ commands' = commands + 1
  /\ getSelectedUnit(unitState) # NULL
  /\ \E target \in GameTargets :
       LET selected == getSelectedUnit(unitState).val
       IN activeTasks' = startMovement(activeTasks, selected.id,
                                       <<selected.position, target>>, DEFAULT_SPEED)
  /\ loadLog' = loadLogKept
  /\ UNCHANGED <<paintRT, cachedPixelData, unitState, gameLoads, aiRequests, dispVars, dipVars>>
  /\ GameFrame

\* a status button of the diplomacy dialog: one row per pair of getAllRelations
GameToggleRelation ==
  /\ page = "game"
  /\ commands < MaxCommands
  /\ commands' = commands + 1
  /\ \E i \in 1 .. Len(GameCountryIds), j \in 1 .. Len(GameCountryIds) :
       /\ i < j
       /\ DipToggleRelation(GameCountryIds[i], GameCountryIds[j])
  /\ loadLog' = loadLogKept
  /\ UNCHANGED <<paintRT, cachedPixelData, unitState, activeTasks, gameLoads, aiRequests,
                 dispVars>>
  /\ GameFrame

\* animate() of game.ts; runJFA reads paintRT, which is bound as u_colorMap
animate ==
  /\ page = "game"
  /\ \E dt \in GameFrameTimes :
       /\ \A k \in 1 .. Len(activeTasks) :
            LET task == activeTasks[k]
            IN (task.unitId \in DOMAIN unitState.units /\ task.currentIndex + 2 <= Len(task.path))
               => Representable(unitState.units[task.unitId].position,
                                task.path[task.currentIndex + 2], MoveOf(task.speed, dt))
       /\ \E st \in { animateTasks([units |-> unitState.units, tasks |-> activeTasks,
                                     cached |-> cachedPixelData, paintRT |-> paintRT,
                                     needsUpdate |-> needsUpdate, writes |-> writes,
                                     completed |-> {}],
                                    1, dt, diplomacyState) } :
             /\ unitState' = [unitState EXCEPT !.units = st.units]
             /\ activeTasks' = SelectSeq(st.tasks, LAMBDA t : t.unitId \notin st.completed)
             /\ cachedPixelData' = st.cached
             /\ paintRT' = st.paintRT
             /\ distanceFieldRT' = IF runsJFA(st.needsUpdate) THEN Some(st.paintRT)
                                   ELSE distanceFieldRT
             /\ jfaRuns' = Some(FrameRuns(st.needsUpdate, st.writes))
  /\ needsUpdate' = FALSE
  /\ writes' = 0
  /\ frame' = Some(Displayed(paintRT', paintRT', distanceFieldRT'))
  /\ loadLog' = loadLogKept
  /\ UNCHANGED <<gameLoads, aiRequests, commands, dipVars>>
  /\ UNCHANGED <<cqVars, page, startLoad, edVars, fnVars>>

\* a frame of the game page
GameAnimate == animate /\ UNCHANGED frames

\* a frame of the game page that is counted
GameAnimateCounted == animate /\ frames' = 1 - frames

(***************************************************************************)
(* The application: one of the two pages is open                           *)
(***************************************************************************)

Init ==
  /\ diplomacyState = createDiplomacyState
  /\ dLast = NoCall
  /\ dBefore2 = NULL
  /\ CqIdle
  /\ FnIdle
  /\ \/ page = "editor" /\ startLoad \in {"none", "library"} /\ EdInit /\ GameIdle
     \/ page = "game" /\ startLoad \in {"none", "library"} /\ GameInit /\ EdIdle

Next ==
  \/ EdMouseDown
  \/ EdMouseMove
  \/ EdMouseUp
  \/ EdFillBtn
  \/ EdClear
  \/ EdFileRead
  \/ EdLoadFromStorage
  \/ EdImgLoad
  \/ EdAnimate
  \/ GameLoadMap
  \/ GameLoadFromStorage
  \/ GameLoadMapResume
  \/ GameClick
  \/ GameRightClick
  \/ GameToggleRelation
  \/ GameAnimate

Spec == Init /\ [][Next]_vars

\* the editor page with its cities
TextInit == Init /\ page = "editor"

SpecText == TextInit /\ [][TextNext]_vars

(***************************************************************************)
(* Claims on floodFill                                                     *)
(***************************************************************************)

\* the raster of the editor: the contents of the target paintA refers to
EdRaster == rt[paintA]

\* the seed texel of the last floodFill, and the fill colour as bytes
EdSeedX == eLast.pos[1] \div SubPixel
EdSeedY == eLast.pos[2] \div SubPixel
EdSeed == EdSeedY * MAP_WIDTH + EdSeedX
EdFillTexel ==
  <<Round255(eLast.color[1]), Round255(eLast.color[2]), Round255(eLast.color[3]), 255>>

Adjacent4(s, t) ==
  \/ TexelY(s) = TexelY(t) /\ (TexelX(s) - TexelX(t) = 1 \/ TexelX(t) - TexelX(s) = 1)
  \/ TexelX(s) = TexelX(t) /\ (TexelY(s) - TexelY(t) = 1 \/ TexelY(t) - TexelY(s) = 1)

RECURSIVE GrowRegion(_, _, _)
\* the least set that holds R and every texel of colour rgb next to one of its texels
GrowRegion(data, rgb, R) ==
  LET more == R \cup { t \in Texels : RGB(data[t]) = rgb /\ \E r \in R : Adjacent4(r, t) }
  IN IF more = R THEN R ELSE GrowRegion(data, rgb, more)

\* the texels reachable from the seed by 4-connected steps through texels of the
\* seed's colour, in the raster before the last floodFill
EdRegion == GrowRegion(eLast.before, RGB(eLast.before[EdSeed]), {EdSeed})

\* the last command was a floodFill with an in-bounds seed whose colour was not the
\* fill colour
EdFillApplies ==
  /\ eLast.op = "floodFill"
  /\ InBounds(EdSeedX, EdSeedY)
  /\ RGB(eLast.before[EdSeed]) # RGB(EdFillTexel)

\* C1: after floodFill with an in-bounds seed whose colour differs from the fill
\* colour, every texel reachable from the seed by 4-connected steps through texels of
\* the seed's original colour has the fill colour with alpha 255; a raster of one
\* colour is recoloured entirely.
C1_FillsRegion ==
  EdFillApplies =>
    /\ \A t \in EdRegion : EdRaster[t] = EdFillTexel
    /\ (\A t \in Texels : RGB(eLast.before[t]) = RGB(eLast.before[EdSeed]))
         => \A t \in Texels : EdRaster[t] = EdFillTexel

\* a fill of a region of more than one texel that is not the whole raster and
\* that holds a translucent texel
C1_Witness ==
  /\ EdFillApplies
  /\ Cardinality(EdRegion) > 1
  /\ Cardinality(EdRegion) < Cardinality(Texels)
  /\ \E t \in EdRegion : eLast.before[t][4] # 255

\* C2: floodFill changes no texel whose colour before the call differs from the seed
\* texel's colour before the call, and no texel that is not 4-connected to the seed
\* through texels of that colour.
C2_FillFrame ==
  (eLast.op = "floodFill" /\ InBounds(EdSeedX, EdSeedY)) =>
    \E region \in {EdRegion} :
      \A t \in Texels :
        (RGB(eLast.before[t]) # RGB(eLast.before[EdSeed]) \/ t \notin region)
          => EdRaster[t] = eLast.before[t]

\* a fill that changed the raster and left alone a texel of the seed's colour that
\* is not connected to the seed, and a texel of another colour
C2_Witness ==
  /\ EdFillApplies
  /\ EdRaster # eLast.before
  /\ \E t \in Texels \ EdRegion : RGB(eLast.before[t]) = RGB(eLast.before[EdSeed])
  /\ \E t \in Texels : RGB(eLast.before[t]) # RGB(eLast.before[EdSeed])

\* C3: a second floodFill with the same seed and colour directly after the first
\* changes no texel: it is the no-op case, which uploads nothing.
C3_Idempotent ==
  eRepeat # NULL => (EdRaster = eLast.before /\ ~eLast.uploads)

\* the first of the two calls did change the raster
C3_Witness ==
  /\ eRepeat # NULL
  /\ eRepeat.val.uploads
  /\ eRepeat.val.before # EdRaster

(***************************************************************************)
(* Claims on the dirty flag and the displayed overlay                      *)
(***************************************************************************)

\* the raster of the page that is open
PageRaster == IF page = "editor" THEN rt[paintA] ELSE paintRT

\* every frame displayed so far showed the overlay computed from the raster's contents
\* at that time, over the raster's colours
C10_Original ==
  frame # NULL => (frame.val.overlayOfRaster /\ frame.val.colorsOfRaster)

\* C10: once runJFA has run (in the editor with the first frame, in the game with the
\* first frame after a map load), a displayed frame shows the overlay computed from
\* the raster's current contents: every raster write sets the dirty flag, so a clear
\* flag means that the overlay is the one of the current raster.
C10_OverlayCurrent ==
  distanceFieldRT # NULL =>
    /\ frame # NULL /\ frame.val.overlayOfRaster /\ frame.val.colorsOfRaster
    /\ ~needsUpdate => distanceFieldRT = Some(PageRaster)

\* in the game a conquest has changed the loaded raster, and the frame displayed
\* shows the overlay of the changed raster
C10_Witness ==
  /\ page = "game"
  /\ frame # NULL
  /\ frame.val.overlayOfRaster
  /\ paintRT # BlankTarget
  /\ \A f \in 1 .. Len(GameFiles) : paintRT # GameFiles[f].image

(***************************************************************************)
(* Claims on the frame loop                                                *)
(***************************************************************************)

\* C11: a frame runs runJFA at most once and only when the dirty flag is set: if the
\* raster was written any number of times since the frame before, the frame runs it
\* exactly once, and if it was not written, the frame does not run it.
C11_OncePerFrame ==
  jfaRuns # NULL =>
    /\ jfaRuns.val.runs <= 1
    /\ jfaRuns.val.runs = 1 => jfaRuns.val.dirty
    /\ jfaRuns.val.writes > 0 => jfaRuns.val.runs = 1
    /\ jfaRuns.val.writes = 0 => jfaRuns.val.runs = 0

\* a frame of the game that found two or more raster writes (a map load and a
\* conquest, or two conquests) and ran runJFA once
C11_Witness ==
  /\ page = "game"
  /\ jfaRuns # NULL
  /\ jfaRuns.val.writes = 2
  /\ jfaRuns.val.runs = 1

(***************************************************************************)
(* Claims on the two paint targets                                         *)
(***************************************************************************)

\* C19: paint() samples the target that holds the latest raster and renders into the
\* other one, and after every sequence of paint, floodFill, clear and load operations
\* the front target paintA holds what the operations give when applied in order to one
\* raster
C19_OneRaster ==
  page = "editor" =>
    /\ rt[paintA] = edRef
    /\ eLast.op = "paint" => (eLast.latest /\ eLast.sampled # eLast.target)

\* a second stroke in a row: the targets have changed roles twice and hold different
\* rasters
C19_Witness ==
  /\ page = "editor"
  /\ eLast.op = "paint"
  /\ paintA = 1
  /\ rt[paintA] # rt[paintB]
  /\ rt[paintB] # ClearedTarget

(***************************************************************************)
(* Claims on loading a persisted record                                    *)
(***************************************************************************)

\* the versions a record may have are 1 and 2
UnsupportedVersion(version) == version # 1 /\ version # 2

AI_SPEED == 10

\* the longest waypoints array of a reply
MaxWaypoints == 3

\* the selected unit
AiUnit == [id |-> "unit_0", position |-> <<SubPixel, MAP_HEIGHT>>]

\* the members of a waypoints array: not an array; an array of one number; an array of
\* two strings that are no numbers; the unit's position; a point elsewhere; a point
\* outside [0, 1]^2
AiEntries ==
  { [kind |-> "scalar"], [kind |-> "short"], [kind |-> "words"],
    [kind |-> "point", at |-> AiUnit.position],
    [kind |-> "point", at |-> <<0, 0>>],
    [kind |-> "point", at |-> <<2 * SubPixel * MAP_WIDTH, -1>>] }

\* how the request ends: generateContent rejects, or it resolves with a text
AiOutcomes ==
  { [kind |-> "rejected"], [kind |-> "empty"], [kind |-> "prose"], [kind |-> "braces"] }
    \cup { [kind |-> "json", waypoints |-> NULL, reasoning |-> r] :
             r \in {NULL, Some("unclear")} }
    \cup { [kind |-> "json", waypoints |-> Some(w), reasoning |-> r] :
             w \in SeqsUpTo(AiEntries, MaxWaypoints), r \in {NULL, Some("via the pass")} }

\* parsed.reasoning || fallback
reasoningOr(reasoning, fallback) == IF reasoning = NULL THEN fallback ELSE reasoning.val

\* Array.isArray(wp) && wp.length >= 2
isPair(wp) == wp.kind \in {"words", "point"}

\* new THREE.Vector2(Math.max(0, Math.min(1, wp[0])), Math.max(0, Math.min(1, wp[1]))):
\* finite tells whether the coordinates are numbers (Math.min(1, 'a') is NaN)
toWaypoint(wp) ==
  IF wp.kind = "words" THEN [finite |-> FALSE, at |-> <<0, 0>>]
  ELSE [finite |-> TRUE,
        at |-> <<Clamp(wp.at[1], 0, SubPixel * MAP_WIDTH), Clamp(wp.at[2], 0, SubPixel * MAP_HEIGHT)>>]

\* the filter and map of parseResponse
toWaypoints(list) ==
  LET pairs == SelectSeq(list, isPair)
  IN [k \in 1 .. Len(pairs) |-> toWaypoint(pairs[k])]

\* parseResponse for a text that is not empty: the plan, or threw when JSON.parse throws
parseResponse(text) ==
  IF text.kind = "prose"
  THEN [threw |-> FALSE, waypoints |-> <<>>, reasoning |-> "No JSON found",
        error |-> Some("Parse error")]
  ELSE IF text.kind = "braces"
  THEN [threw |-> TRUE]
  ELSE IF text.waypoints = NULL
  THEN [threw |-> FALSE, waypoints |-> <<>>,
        reasoning |-> reasoningOr(text.reasoning, "Invalid format"),
        error |-> Some("Invalid waypoints")]
  ELSE [threw |-> FALSE, waypoints |-> toWaypoints(text.waypoints.val),
        reasoning |-> reasoningOr(text.reasoning, "Movement planned"), error |-> NULL]

\* unit.position.distanceTo(wp) > 0.01: the points of the model are further apart than
\* 0.01, and a comparison with NaN is false
farFrom(position, wp) == wp.finite /\ wp.at # position

\* plan.waypoints.unshift(unit.position.clone()) where planMovement does it
withStart(plan, unit) ==
  IF Len(plan.waypoints) > 0 /\ farFrom(unit.position, plan.waypoints[1])
  THEN [plan EXCEPT !.waypoints = <<[finite |-> TRUE, at |-> unit.position]>> \o @]
  ELSE plan

\* planMovement: the plan it resolves with, or threw when its promise rejects
planMovement(outcome, unit) ==
  IF outcome.kind = "rejected" THEN [threw |-> TRUE]
  ELSE IF outcome.kind = "empty"
  THEN [threw |-> FALSE, waypoints |-> <<>>, reasoning |-> "Empty response",
        error |-> Some("No response")]
  ELSE IF parseResponse(outcome).threw THEN [threw |-> TRUE]
  ELSE withStart(parseResponse(outcome), unit)

AiInit ==
  /\ aiInput \in { Some(i) : i \in [command : {"", "take the capital"},
                                    selected : {NULL, Some(AiUnit)},
                                    geminiConfig : {NULL, Some("key")}] }
  /\ aiPhase = "idle"
  /\ aiOutcome = NULL
  /\ aiAlert = NULL
  /\ aiStatusShown = FALSE
  /\ aiTasks \in { <<>>, <<[unitId |-> AiUnit.id, path |-> <<AiUnit.position, <<0, 0>> >>,
                           currentIndex |-> 0, speed |-> DEFAULT_SPEED]>> }
  /\ JfaIdle
  /\ LbIdle
  /\ CkIdle
  /\ Fn2Idle
  /\ diplomacyState = createDiplomacyState
  /\ dLast = NoCall
  /\ dBefore2 = NULL
  /\ CqIdle
  /\ AppIdle

\* executeAICommand up to its await
AiExecute ==
  /\ aiInput # NULL
  /\ aiPhase = "idle"
  /\ IF aiInput.val.command = ""
     THEN aiAlert' = Some("Enter a command") /\ aiPhase' = "returned" /\ UNCHANGED aiStatusShown
     ELSE IF aiInput.val.selected = NULL
     THEN aiAlert' = Some("Select a unit first") /\ aiPhase' = "returned"
          /\ UNCHANGED aiStatusShown
     ELSE IF aiInput.val.geminiConfig = NULL
     THEN aiAlert' = Some("Set your Gemini API key first") /\ aiPhase' = "returned"
          /\ UNCHANGED aiStatusShown
     ELSE aiStatusShown' = TRUE /\ aiPhase' = "awaiting" /\ UNCHANGED aiAlert
  /\ UNCHANGED <<aiInput, aiOutcome, aiTasks, jfaVars, lbVars, ckVars, fn2Vars, dipVars, cqVars, appVars>>

\* executeAICommand from its await on, the request having ended with outcome
AiSettleOf(outcome) ==
  /\ aiPhase = "awaiting"
  /\ aiOutcome' = Some(outcome)
  /\ \E plan \in {planMovement(outcome, aiInput.val.selected.val)} :
       IF plan.threw
       THEN aiPhase' = "threw" /\ UNCHANGED <<aiAlert, aiStatusShown, aiTasks>>
       ELSE /\ aiPhase' = "returned"
            /\ aiStatusShown' = FALSE
            /\ IF plan.error # NULL
               THEN aiAlert' = Some("AI Error: " \o plan.reasoning) /\ UNCHANGED aiTasks
               ELSE IF Len(plan.waypoints) < 2
               THEN aiAlert' = Some("Could not plan: " \o plan.reasoning) /\ UNCHANGED aiTasks
               ELSE /\ aiTasks' = startMovement(aiTasks, aiInput.val.selected.val.id,
                                                plan.waypoints, AI_SPEED)
                    /\ UNCHANGED aiAlert
  /\ UNCHANGED <<aiInput, jfaVars, lbVars, ckVars, fn2Vars, dipVars, cqVars, appVars>>

AiSettle == \E outcome \in AiOutcomes : AiSettleOf(outcome)

AiNext == AiExecute \/ AiSettle

SpecAI == AiInit /\ [][AiNext]_vars

\* the waypoints of a reply that are pairs of numbers
AiUsable(outcome) ==
  IF outcome.kind # "json" \/ outcome.waypoints = NULL THEN <<>>
  ELSE SelectSeq(outcome.waypoints.val, LAMBDA wp : wp.kind = "point")

\* the reply gives a path of at least 2 waypoints: its pairs of numbers, with the unit's
\* position put first where they do not start there, are 2 or more
AiResolvable(outcome, unit) ==
  /\ Len(AiUsable(outcome)) > 0
  /\ Len(AiUsable(outcome)) + (IF toWaypoint(AiUsable(outcome)[1]).at # unit.position THEN 1 ELSE 0) >= 2

\* C18 as the specification states it: a command whose reply cannot be resolved into a
\* path of at least 2 waypoints starts no movement task and ends with a message shown
C18_Original ==
  (aiOutcome # NULL /\ ~AiResolvable(aiOutcome.val, aiInput.val.selected.val)) =>
    /\ aiAlert # NULL
    /\ aiPhase = "returned"
    /\ \A k \in 1 .. Len(aiTasks) : aiTasks[k].speed # AI_SPEED

\* a request that failed: executeAICommand has ended with no alert, no task of its own,
\* and the 'AI Planning...' status still shown
C18_Witness ==
  /\ aiOutcome # NULL
  /\ aiOutcome.val.kind = "rejected"
  /\ aiPhase = "threw"
  /\ aiAlert = NULL
  /\ aiStatusShown

(***************************************************************************)
(* The game page with every way a movement task starts and ends: the        *)
(* right click, executeAICommand, deleteUnit, loadMap and the frames        *)
(***************************************************************************)

\* cancelMovement
cancelMovement(tasks, unitId) == SelectSeq(tasks, LAMBDA t : t.unitId # unitId)

\* game.ts:100, 192-213, 478: showUnitDialog is called for a new unit only, so that
\* editingUnitId is null whenever deleteUnit runs
editingUnitId == NULL

\* deleteUnit
deleteUnit ==
  IF editingUnitId # NULL
  THEN /\ unitState' = removeUnit(unitState, editingUnitId.val)
       /\ activeTasks' = cancelMovement(activeTasks, editingUnitId.val)
  ELSE UNCHANGED <<unitState, activeTasks>>

\* the delete button of the unit dialog
GameDeleteUnit ==
  /\ page = "game"
  /\ deleteUnit
  /\ loadLog' = loadLogKept
  /\ UNCHANGED <<paintRT, cachedPixelData, gameLoads, aiRequests, commands, dispVars,
                 dipVars>>
  /\ GameFrame

\* executeAICommand up to its await, with a command, a selected unit and a key (the
\* other cases end with an alert and change nothing of the game)
GameAIRequest ==
  /\ page = "game"
  /\ commands < MaxCommands
  /\ commands' = commands + 1
  /\ getSelectedUnit(unitState) # NULL
  /\ aiRequests' = Append(aiRequests, [id |-> getSelectedUnit(unitState).val.id,
                                       detached |-> NULL])
  /\ loadLog' = loadLogKept
  /\ UNCHANGED <<paintRT, cachedPixelData, unitState, activeTasks, gameLoads, dispVars,
                 dipVars>>
  /\ GameFrame

\* the waypoints of the replies the game is given: none, one, and two
GameWaypoints ==
  { <<>>,
    << [kind |-> "point", at |-> <<0, 0>>] >>,
    << [kind |-> "point", at |-> <<0, 0>>], [kind |-> "point", at |-> <<SubPixel * MAP_WIDTH, 0>>] >> }

\* how the request ends: it is rejected, or it resolves with waypoints that are numbers
GameReplies ==
  { [kind |-> "rejected"] }
    \cup { [kind |-> "json", waypoints |-> Some(w), reasoning |-> NULL] : w \in GameWaypoints }

\* the unit a suspended call of executeAICommand holds as selected
requestUnit(request, units) ==
  [id |-> request.id,
   position |-> IF request.detached = NULL THEN units[request.id].position
                ELSE request.detached.val]

\* executeAICommand from its await on, for the k-th call that is suspended and the
\* reply outcome: startMovement with the plan's waypoints, unless planMovement threw or
\* the plan has an error or fewer than 2 waypoints
GameAISettleOf(k, outcome) ==
  /\ page = "game"
  /\ k \in 1 .. Len(aiRequests)
  /\ aiRequests' = SubSeq(aiRequests, 1, k - 1) \o SubSeq(aiRequests, k + 1, Len(aiRequests))
  /\ \E plan \in {planMovement(outcome, requestUnit(aiRequests[k], unitState.units))} :
       IF plan.threw THEN UNCHANGED activeTasks
       ELSE IF plan.error # NULL \/ Len(plan.waypoints) < 2 THEN UNCHANGED activeTasks
       ELSE activeTasks' = startMovement(activeTasks, aiRequests[k].id,
                                         [i \in 1 .. Len(plan.waypoints) |-> plan.waypoints[i].at],
                                         AI_SPEED)
  /\ loadLog' = loadLogKept
  /\ UNCHANGED <<paintRT, cachedPixelData, unitState, gameLoads, commands, dispVars,
                 dipVars>>
  /\ GameFrame

GameAISettle ==
  \E k \in 1 .. Len(aiRequests), outcome \in GameReplies : GameAISettleOf(k, outcome)

\* the game page, opened with no scenario of the library to load
MoveInit == Init /\ page = "game" /\ startLoad = "none"

MoveNext ==
  \/ GameLoadMap
  \/ GameLoadMapResume
  \/ GameClick
  \/ GameRightClick
  \/ GameAIRequest
  \/ GameAISettle
  \/ GameDeleteUnit
  \/ GameAnimateCounted

\* the next frame comes
FrameComes == frames' = 1 - frames

\* animate() asks for the next frame whenever it runs (requestAnimationFrame(animate)
\* is its first statement), so that frames keep coming
SpecMove == MoveInit /\ [][MoveNext]_vars /\ WF_frames(FrameComes)

(***************************************************************************)
(* Claims on the raster's index range                                      *)
(*                                                                         *)
(* The three functions that index the raster by a computed position are    *)
(* run side by side: floodFill by the editor page, conquestAlongPath and   *)
(* createCountryLabel by their own drivers.                                *)
(***************************************************************************)

RasterInit ==
  \/ Init /\ page = "editor"
  \/ CqInit
  \/ LbInit

RasterNext ==
  \/ EdMouseDown
  \/ EdMouseMove
  \/ EdMouseUp
  \/ EdFillBtn
  \/ EdClear
  \/ EdFileRead
  \/ EdLoadFromStorage
  \/ EdImgLoad
  \/ EdAnimate
  \/ CqToggle
  \/ CqCall
  \/ CqFreshSnapshot
  \/ LbCall

SpecRaster == RasterInit /\ [][RasterNext]_vars

\* position p lies in [0, width) x [0, height)
InRaster(p, width, height) == p[1] \in 0 .. (width - 1) /\ p[2] \in 0 .. (height - 1)

\* the four positions next to texel i
Beside(i) ==
  { <<TexelX(i) + 1, TexelY(i)>>, <<TexelX(i) - 1, TexelY(i)>>,
    <<TexelX(i), TexelY(i) + 1>>, <<TexelX(i), TexelY(i) - 1>> }

\* the positions that the last floodFill had to look at: the seed, and the positions
\* next to every texel it filled
EdFillCandidates ==
  {<<EdSeedX, EdSeedY>>}
    \cup UNION { Beside(i) : i \in { t \in Texels : EdRaster[t] # eLast.before[t] } }

\* every position of the disks around the samples of the call's path
CqCandidates ==
  UNION { LET startPx == ToPx(cqArgs.path[st[1]])
              endPx == ToPx(cqArgs.path[st[1] + 1])
              steps == StepCount(startPx, endPx)
          IN { <<LerpFloor(startPx[1], endPx[1], st[2], steps) + o[1],
                 LerpFloor(startPx[2], endPx[2], st[2], steps) + o[2]>> :
                 o \in { DiskOffsets(cqArgs.radius)[k] :
                           k \in 1 .. Len(DiskOffsets(cqArgs.radius)) } } :
          st \in CqSampleSet }

\* the positions for which the last floodFill computed an index
EdIndexed == floodFill(eLast.before, eLast.pos, eLast.color).indexed

\* the positions for which the call of conquestAlongPath computed an index
CqIndexed ==
  conquestAlongPath(CqBefore, cqArgs.path, cqArgs.color, cqArgs.radius, diplomacyState,
                    cqArgs.countryId).indexed

\* a call that came to the positions candidates and took the raster from before to after
\* computed an index for exactly the candidates inside the raster, and every texel it
\* changed is one of them
IndexedInside(indexed, candidates, before, after) ==
  /\ indexed = { p \in candidates : InRaster(p, MAP_WIDTH, MAP_HEIGHT) }
  /\ \A t \in Texels : after[t] # before[t] => <<TexelX(t), TexelY(t)>> \in indexed

\* C14: floodFill, conquestAlongPath and the label's line tracer compute a texel index
\* only for positions inside the raster, and they compute one for every position inside
\* it that they come to; a position outside it is passed over and no texel changes on
\* its account: a texel that changed is a position the function came to, and a floodFill
\* with its seed outside changes and uploads nothing.
C14_NeverOutside ==
  /\ eLast.op = "floodFill" =>
       /\ IndexedInside(EdIndexed, EdFillCandidates, eLast.before, EdRaster)
       /\ ~InRaster(<<EdSeedX, EdSeedY>>, MAP_WIDTH, MAP_HEIGHT) =>
            ~eLast.uploads /\ EdRaster = eLast.before
  /\ cqResult # NULL => IndexedInside(CqIndexed, CqCandidates, CqBefore, cqData)
  /\ lbResult # NULL =>
       \A line \in LbLines : \A p \in traceIndexed(LbWidth, LbHeight, line) :
         InRaster(p, LbWidth, LbHeight)

\* a call of conquestAlongPath that changed a texel and whose disks hold a position
\* right of the raster and one above it
C14_Witness ==
  /\ cqResult # NULL
  /\ cqResult.val.pixelsPainted > 0
  /\ \E p \in CqCandidates : p[1] >= MAP_WIDTH
  /\ \E p \in CqCandidates : p[2] < 0

(***************************************************************************)
(* shaders.ts: borderDetectFrag, the seeding stage of runJFA               *)
(***************************************************************************)

\* a mutant: the sampler wraps around
lookUpRepeat(tex, w, h, x, y) == tex[((y + h) % h) * w + ((x + w) % w)]

\* texture2D(u_lookUpTex, ...) at the centre of texel <<x, y>>: the targets are created
\* with NearestFilter and the default wrapping, which clamps to the edge
lookUp(tex, w, h, x, y) ==
  tex[(IF y < 0 THEN 0 ELSE IF y > h - 1 THEN h - 1 ELSE y) * w
      + (IF x < 0 THEN 0 ELSE IF x > w - 1 THEN w - 1 ELSE x)]

\* dot(diff, diff) of the .rgb of two texels, in units of 1 / 255^2
dotDiff(a, b) ==
  (a[1] - b[1]) * (a[1] - b[1]) + (a[2] - b[2]) * (a[2] - b[2]) + (a[3] - b[3]) * (a[3] - b[3])

\* float borderTest = dot(diffL, diffL) + dot(diffR, diffR) + dot(diffU, diffU) + dot(diffD, diffD)
borderTest(tex, w, h, x, y) ==
  dotDiff(lookUp(tex, w, h, x - 1, y), lookUp(tex, w, h, x, y))
  + dotDiff(lookUp(tex, w, h, x + 1, y), lookUp(tex, w, h, x, y))
  + dotDiff(lookUp(tex, w, h, x, y + 1), lookUp(tex, w, h, x, y))
  + dotDiff(lookUp(tex, w, h, x, y - 1), lookUp(tex, w, h, x, y))

\* one render of borderDetectFrag: gl_FragColor = borderTest > 0.0001 ? vec4(vUv, 0.0, 1.0)
\* : vec4(-1.0, -1.0, 0.0, 1.0), the coordinate being that of the texel
borderDetectFrag(tex, w, h) ==
  [i \in 0 .. (w * h - 1) |->
     IF borderTest(tex, w, h, i % w, i \div w) * 10000 > 255 * 255
     THEN <<i % w, i \div w>> ELSE NoSeed]

\* the width and the height of the raster the shader is run on
BdSize == 3

\* colours that are 4, 9 and 8 apart from the first, in units of 1 / 255^2
BdColors == { <<0, 0, 0, 255>>, <<2, 0, 0, 255>>, <<3, 0, 0, 255>>, <<0, 2, 2, 255>> }
BdBackground == <<0, 0, 0, 255>>

\* a raster with one texel and its four direct neighbours coloured
BdCross(c, cc, cl, cr, cu, cd) ==
  [i \in 0 .. (BdSize * BdSize - 1) |->
     IF i = c THEN cc
     ELSE IF i % BdSize = (c % BdSize) - 1 /\ i \div BdSize = c \div BdSize THEN cl
     ELSE IF i % BdSize = (c % BdSize) + 1 /\ i \div BdSize = c \div BdSize THEN cr
     ELSE IF i % BdSize = c % BdSize /\ i \div BdSize = (c \div BdSize) + 1 THEN cu
     ELSE IF i % BdSize = c % BdSize /\ i \div BdSize = (c \div BdSize) - 1 THEN cd
     ELSE BdBackground]

BdRasters ==
  { BdCross(c, cc, cl, cr, cu, cd) :
      c \in 0 .. (BdSize * BdSize - 1), cc \in BdColors, cl \in BdColors, cr \in BdColors,
      cu \in BdColors, cd \in BdColors }

BdInit ==
  /\ bdData \in BdRasters
  /\ bdSeeds = NULL
  /\ FitIdle
  /\ TpIdle
  /\ JfaIdle
  /\ LbIdle
  /\ CkIdle
  /\ AiIdle
  /\ diplomacyState = createDiplomacyState
  /\ dLast = NoCall
  /\ dBefore2 = NULL
  /\ CqIdle
  /\ AppIdle

\* renderer.setRenderTarget(jfaA); renderer.render(paintScene, paintCamera) with borderMat
BdRender ==
  /\ bdData # <<>>
  /\ bdSeeds = NULL
  /\ bdSeeds' = Some(borderDetectFrag(bdData, BdSize, BdSize))
  /\ UNCHANGED <<bdData, fitVars, tpVars, jfaVars, lbVars, ckVars, aiVars, dipVars, cqVars, appVars>>

BdNext == BdRender

SpecBorder == BdInit /\ [][BdNext]_vars

\* the direct neighbours of texel i that are texels of the raster
BdNeighbours(i) ==
  { j \in 0 .. (BdSize * BdSize - 1) :
      \/ j \div BdSize = i \div BdSize /\ (j % BdSize = (i % BdSize) - 1 \/ j % BdSize = (i % BdSize) + 1)
      \/ j % BdSize = i % BdSize /\ (j \div BdSize = (i \div BdSize) - 1 \/ j \div BdSize = (i \div BdSize) + 1) }

\* the squared distance of two colours exceeds 0.0001 on channels scaled to [0, 1]
BdExceeds(a, b) == dotDiff(a, b) * 10000 > 255 * 255

RECURSIVE BdSumOver(_, _)
\* the sum of the squared distances of texel i from the texels of set S
BdSumOver(i, S) ==
  IF S = {} THEN 0
  ELSE LET j == CHOOSE k \in S : TRUE
       IN dotDiff(bdData[j], bdData[i]) + BdSumOver(i, S \ {j})

\* C21 as stated: a texel becomes a seed carrying its own coordinate exactly when at
\* least one of its 4 direct neighbours has a colour whose squared distance from the
\* texel's colour exceeds the threshold; otherwise it carries the sentinel (-1,-1).
C21_Original ==
  bdSeeds # NULL =>
    \A i \in DOMAIN bdData :
      bdSeeds.val[i] = (IF \E j \in BdNeighbours(i) : BdExceeds(bdData[j], bdData[i])
                        THEN <<i % BdSize, i \div BdSize>> ELSE NoSeed)

\* C21 (amended): a texel becomes a seed carrying its own coordinate exactly when the
\* SUM of the squared distances of its direct neighbours' colours from its own exceeds
\* the threshold, which on 8-bit channels is a sum of squared channel differences of 7
\* or more; otherwise it carries the sentinel. So a texel with a neighbour beyond the
\* threshold is a seed, and a texel whose neighbours all have its colour is not.
C21_SeedBySum ==
  bdSeeds # NULL =>
    \A i \in DOMAIN bdData :
      /\ bdSeeds.val[i] = (IF BdSumOver(i, BdNeighbours(i)) >= 7
                           THEN <<i % BdSize, i \div BdSize>> ELSE NoSeed)
      /\ (\E j \in BdNeighbours(i) : BdExceeds(bdData[j], bdData[i]))
           => bdSeeds.val[i] = <<i % BdSize, i \div BdSize>>
      /\ (\A j \in BdNeighbours(i) : bdData[j] = bdData[i]) => bdSeeds.val[i] = NoSeed

\* the shader has run on a raster with a seed none of whose neighbours is beyond the
\* threshold, and with a texel that differs from a neighbour and is no seed
C21_Witness ==
  /\ bdSeeds # NULL
  /\ \E i \in DOMAIN bdData :
       /\ bdSeeds.val[i] = <<i % BdSize, i \div BdSize>>
       /\ \A j \in BdNeighbours(i) : ~BdExceeds(bdData[j], bdData[i])
  /\ \E i \in DOMAIN bdData :
       /\ bdSeeds.val[i] = NoSeed
       /\ \E j \in BdNeighbours(i) : bdData[j] # bdData[i]

(***************************************************************************)
(* countryNaming.ts: leastSquaresFit on the sums of a set of points        *)
(***************************************************************************)

\* the largest coordinate of a point, and the largest number of points
FitGrid == 2
MaxFitPoints == 3

FitPointSets ==
  { S \in SUBSET ((0 .. FitGrid) \X (0 .. FitGrid)) : Cardinality(S) <= MaxFitPoints }

RECURSIVE fitSums(_)
\* sumX += x; sumY += y; sumXSqr += x * x; sumYSqr += y * y; sumXY += x * y; count++
fitSums(S) ==
  IF S = {} THEN [sumX |-> 0, sumY |-> 0, sumXSqr |-> 0, sumYSqr |-> 0, sumXY |-> 0, count |-> 0]
  ELSE LET p == CHOOSE q \in S : TRUE
           r == fitSums(S \ {p})
       IN [sumX |-> r.sumX + p[1], sumY |-> r.sumY + p[2],
           sumXSqr |-> r.sumXSqr + p[1] * p[1], sumYSqr |-> r.sumYSqr + p[2] * p[2],
           sumXY |-> r.sumXY + p[1] * p[2], count |-> r.count + 1]

\* the number of points of the longest run along a line, and the largest slope and
\* intercept of the lines
FitRun == 10
FitSlope == 2

\* the runs of points (x, k * x + m) for x = 0 .. n - 1
FitLines ==
  { { <<x, k * x + m>> : x \in 0 .. (n - 1) } : n \in 2 .. FitRun, k \in 0 .. FitSlope, m \in 0 .. 1 }

RECURSIVE FitMax(_, _)
\* the largest coordinate c of the points of S
FitMax(S, c) ==
  IF S = {} THEN 0
  ELSE LET p == CHOOSE q \in S : TRUE
           r == FitMax(S \ {p}, c)
       IN IF p[c] > r THEN p[c] ELSE r

\* the raster that holds just the points of S, and these in a colour within the tolerance
FitWidth(S) == FitMax(S, 1) + 1
FitHeight(S) == FitMax(S, 2) + 1
FitRaster(S) ==
  [i \in 0 .. (FitWidth(S) * FitHeight(S) - 1) |->
     IF <<i % FitWidth(S), i \div FitWidth(S)>> \in S THEN LbNear ELSE LbOff]

\* the strips of n rows, two texels wide, that step by one column half way up, leftwards
\* and rightwards
FitSteep ==
  { { <<(IF 2 * y < n THEN 1 ELSE 0) + a, y>> : y \in 0 .. (n - 1), a \in 0 .. 1 } : n \in 2 .. FitRun }
  \cup { { <<(IF 2 * y < n THEN 0 ELSE 1) + a, y>> : y \in 0 .. (n - 1), a \in 0 .. 1 } : n \in 2 .. FitRun }

FitInit ==
  /\ fitPoints \in FitPointSets \cup FitLines \cup FitSteep
  /\ fitRate \in {1, SAMPLE_RATE}
  /\ fitOut = NULL
  /\ BdIdle
  /\ TpIdle
  /\ JfaIdle
  /\ LbIdle
  /\ CkIdle
  /\ AiIdle
  /\ diplomacyState = createDiplomacyState
  /\ dLast = NoCall
  /\ dBefore2 = NULL
  /\ CqIdle
  /\ AppIdle

\* the two calls of leastSquaresFit as analyzeCountryPixels makes them: the second with
\* sumX and sumY exchanged and sumYSqr for sumXSqr; then analyzeCountryPixels,
\* traceLineSegment and findBestLine on the raster of the points
FitCall ==
  /\ fitOut = NULL
  /\ \E s \in {fitSums(fitPoints)}, w \in {FitWidth(fitPoints)}, h \in {FitHeight(fitPoints)} :
       \E analysis \in {analyzeCountryPixelsAt(FitRaster(fitPoints), w, h,
                                               targetBytes(LbTarget), fitRate)} :
         fitOut' = Some([ykx |-> leastSquaresFit(s.count, s.sumXY, s.sumX, s.sumY, s.sumXSqr),
                         xky |-> leastSquaresFit(s.count, s.sumXY, s.sumY, s.sumX, s.sumYSqr),
                         analysis |-> analysis,
                         segment |-> IF analysis = NULL THEN NULL
                                     ELSE traceLineSegment(FitRaster(fitPoints), w, h,
                                                           targetBytes(LbTarget),
                                                           analysis.val.lineYKX),
                         best |-> IF analysis = NULL THEN NULL
                                  ELSE findBestLine(FitRaster(fitPoints), w, h,
                                                    targetBytes(LbTarget),
                                                    analysis.val.lineYKX, analysis.val.lineXKY)])
  /\ UNCHANGED <<fitPoints, fitRate, bdVars, tpVars, jfaVars, lbVars, ckVars, aiVars, dipVars, cqVars, appVars>>

FitNext == FitCall

SpecFit == FitInit /\ [][FitNext]_vars

\* the fit [kn / kd, mn / md] is the fallback k = 0, m = sumY / n
FitIsFallback(fit, n, sumY) == fit.kn = 0 /\ fit.mn * n = sumY * fit.md

FitScenario == { <<x, 2 * x>> : x \in 0 .. 9 }

\* the line y = (kn / kd) * x + (mn / md) holds every point of S
FitOnLine(S, fit) ==
  \A p \in S : p[2] * fit.kd * fit.md = fit.kn * p[1] * fit.md + fit.mn * fit.kd

\* fit is the line through the two points p and q of different x
FitThrough(fit, p, q) ==
  /\ fit.kn * (q[1] - p[1]) = (q[2] - p[2]) * fit.kd
  /\ fit.mn * fit.kd = (p[2] * fit.kd - fit.kn * p[1]) * fit.md

\* the points of S lie on one line y = kx + m and have two different x
FitCollinear(S) ==
  \E p \in S, q \in S :
    /\ p[1] < q[1]
    /\ \A r \in S : (r[2] - p[2]) * (q[1] - p[1]) = (q[2] - p[2]) * (r[1] - p[1])

\* the sums of two or more points that lie exactly on a line y = kx + m and have two
\* different x yield exactly that k and m
FitExact ==
  \A p \in fitPoints, q \in fitPoints :
    (p[1] < q[1] /\ FitCollinear(fitPoints))
      => FitThrough(fitOut.val.ykx, p, q) /\ FitOnLine(fitPoints, fitOut.val.ykx)

\* on the raster of the ten points the y = kx + m fit is k = 2, m = 0 and the longest
\* traced segment runs from (0, 0) to (9, 18)
FitScenarioHolds ==
  /\ fitOut.val.analysis # NULL
  /\ fitOut.val.analysis.val.lineYKX = [type |-> "YKX", kn |-> 2, kd |-> 1, mn |-> 0, md |-> 1]
  /\ fitOut.val.segment # NULL
  /\ fitOut.val.segment.val.from = 0 /\ fitOut.val.segment.val.to = 9
  /\ iterate(fitOut.val.segment.val.line, 0) = [x |-> <<0, 1>>, y |-> <<0, 1>>]
  /\ iterate(fitOut.val.segment.val.line, 9) = [x |-> <<9, 1>>, y |-> <<18, 1>>]
  /\ fitOut.val.best # NULL
  /\ fitOut.val.best.val.line = fitOut.val.segment.val.line
  /\ fitOut.val.best.val.from = 0 /\ fitOut.val.best.val.to = 9

\* C23 as stated: for a raster whose target-coloured texels are exactly the points
\* (x, 2x) for x = 0 .. 9 the y = kx + m fit gives k = 2 and m = 0 and the longest traced
\* segment spans the full extent from (0,0) to (9,18); and sums accumulated from n >= 2
\* points lying exactly on y = kx + m with two distinct x yield exactly that k and m.
C23_Original ==
  fitOut # NULL =>
    /\ fitPoints = FitScenario => FitScenarioHolds
    /\ FitExact

\* C23 (amended): the same for the raster of the ten points when analyzeCountryPixels
\* samples every texel (sampleRate = 1); with the sampleRate the program uses, 4, three
\* of the ten points are sampled and the analysis is null, so that nothing is fitted or
\* traced. The sums of points that lie exactly on a line yield that line in either case.
C23_AtStrideOne ==
  fitOut # NULL =>
    /\ (fitPoints = FitScenario /\ fitRate = 1) => FitScenarioHolds
    /\ (fitPoints = FitScenario /\ fitRate = SAMPLE_RATE)
         => /\ fitOut.val.analysis = NULL
            /\ fitOut.val.segment = NULL
            /\ fitOut.val.ykx = [kn |-> 2, kd |-> 1, mn |-> 0, md |-> 1]
    /\ FitExact

\* analyzeCountryPixels sampled every texel of the raster of the ten points, and the
\* segment from (0, 0) to (9, 18) was traced and chosen
C23_Witness ==
  /\ fitOut # NULL
  /\ fitPoints = FitScenario
  /\ fitRate = 1
  /\ fitOut.val.best # NULL
  /\ fitOut.val.best.val.to - fitOut.val.best.val.from = 9

\* the x of the start and of the end of a baseline, as fractions
BaselineStartX(b) == iterate(b.line, b.from).x
BaselineEndX(b) == iterate(b.line, b.to).x

\* C24: the baseline returned by findBestLine has its angle within [-90, +90] degrees,
\* which is an angle atan2(dy, dx) with dx >= 0; the angle is that of the delta of the
\* returned ends, and the returned end.x is never less than start.x
C24_LeftToRight ==
  (fitOut # NULL /\ fitOut.val.best # NULL) =>
    LET b == fitOut.val.best.val
    IN /\ b.angle.dx[1] >= 0
       /\ b.angle = segmentDelta([line |-> b.line, from |-> b.from, to |-> b.to])
       /\ ~FracGreater(BaselineStartX(b)[1], BaselineStartX(b)[2],
                       BaselineEndX(b)[1], BaselineEndX(b)[2])

\* findBestLine chose a run of an x = ky + m line of negative k, whose ends it exchanged
C24_Witness ==
  /\ fitOut # NULL
  /\ fitOut.val.best # NULL
  /\ fitOut.val.best.val.line.type = "XKY"
  /\ fitOut.val.best.val.line.kn < 0
  /\ fitOut.val.best.val.from > fitOut.val.best.val.to

(***************************************************************************)
(* countryNaming.ts: generateTextPositions                                 *)
(*                                                                         *)
(* A Vector2 is [x, y] with both coordinates exact fractions <<n, d>>,     *)
(* d > 0, as the positions on a traced line are.                           *)
(***************************************************************************)

FracAdd(a, b) == Reduce(a[1] * b[2] + b[1] * a[2], a[2] * b[2])
FracSub(a, b) == Reduce(a[1] * b[2] - b[1] * a[2], a[2] * b[2])
FracMul(a, b) == Reduce(a[1] * b[1], a[2] * b[2])

\* Vector2.add, Vector2.sub, Vector2.multiplyScalar and Vector2.lerp
add(v, w) == [x |-> FracAdd(v.x, w.x), y |-> FracAdd(v.y, w.y)]
sub(v, w) == [x |-> FracSub(v.x, w.x), y |-> FracSub(v.y, w.y)]
multiplyScalar(v, c) == [x |-> FracMul(v.x, c), y |-> FracMul(v.y, c)]
lerp(v, w, alpha) ==
  [x |-> FracAdd(v.x, FracMul(FracSub(w.x, v.x), alpha)),
   y |-> FracAdd(v.y, FracMul(FracSub(w.y, v.y), alpha))]

\* const padding = 0.1
padding == <<1, 10>>

\* a mutant: the step is one over the number of characters
charStepOverCount(i, charCount) == IF charCount > 1 THEN <<i, charCount>> ELSE <<1, 2>>

\* const t = charCount > 1 ? i / (charCount - 1) : 0.5
charStep(i, charCount) == IF charCount > 1 THEN <<i, charCount - 1>> ELSE <<1, 2>>

\* generateTextPositions. dir is end - start normalised and len its length, so that
\* dir * (len * padding) is (end - start) * padding, also for len = 0, where normalize()
\* leaves the zero vector
generateTextPositions(start, end, charCount, width, height) ==
  IF charCount < 1 THEN <<>>
  ELSE LET paddedStart == add(start, multiplyScalar(sub(end, start), padding))
           paddedEnd == sub(end, multiplyScalar(sub(end, start), padding))
       IN [k \in 1 .. charCount |->
             LET pos == lerp(paddedStart, paddedEnd, charStep(k - 1, charCount))
             IN [x |-> FracMul(pos.x, <<1, width>>),
                 y |-> FracSub(<<1, 1>>, FracMul(pos.y, <<1, height>>))]]

\* the width and the height of the raster, and the largest number of characters
TpWidth == 3
TpHeight == 2
MaxChars == 3

\* the positions inside the raster on a grid of half texels
TpPoints ==
  { [x |-> Reduce(i, 2), y |-> Reduce(j, 2)] : i \in 0 .. (2 * TpWidth - 1), j \in 0 .. (2 * TpHeight - 1) }

TpInit ==
  /\ tpArgs \in { Some([start |-> p, end |-> q, charCount |-> n]) :
                    p \in TpPoints, q \in TpPoints, n \in 0 .. MaxChars }
  /\ tpOut = NULL
  /\ BdIdle
  /\ FitIdle
  /\ JfaIdle
  /\ LbIdle
  /\ CkIdle
  /\ AiIdle
  /\ diplomacyState = createDiplomacyState
  /\ dLast = NoCall
  /\ dBefore2 = NULL
  /\ CqIdle
  /\ AppIdle

\* a call of generateTextPositions
TpCall ==
  /\ tpArgs # NULL
  /\ tpOut = NULL
  /\ tpOut' = Some(generateTextPositions(tpArgs.val.start, tpArgs.val.end, tpArgs.val.charCount,
                                         TpWidth, TpHeight))
  /\ UNCHANGED <<tpArgs, bdVars, fitVars, jfaVars, lbVars, ckVars, aiVars, dipVars, cqVars, appVars>>

TpNext == TpCall

SpecTextPositions == TpInit /\ [][TpNext]_vars

\* two fractions are the same number
FracEq(a, b) == a[1] * b[2] = b[1] * a[2]

\* the fraction of the way from start to end at which anchor i of count lies:
\* 0.1 + 0.8 * i / (count - 1), and 0.5 for a single character
TpFraction(i, count) ==
  IF count = 1 THEN <<1, 2>> ELSE <<(count - 1) + 8 * i, 10 * (count - 1)>>

\* the coordinate at fraction f of the way from a to b
TpAlong(a, b, f) == FracAdd(a, FracMul(FracSub(b, a), f))

\* C25: generateTextPositions returns one anchor per character, none when the count is
\* below 1; anchor i lies at fraction 0.1 + 0.8 * i / (count - 1) of the way from start
\* to end (0.5 for a single character), in character order, expressed as
\* (x / width, 1 - y / height), and lies in [0,1] x [0,1] for a baseline inside the raster
C25_Anchors ==
  tpOut # NULL =>
    LET a == tpArgs.val
    IN /\ Len(tpOut.val) = (IF a.charCount < 1 THEN 0 ELSE a.charCount)
       /\ \A k \in 1 .. Len(tpOut.val) :
            /\ FracEq(FracMul(tpOut.val[k].x, <<TpWidth, 1>>),
                      TpAlong(a.start.x, a.end.x, TpFraction(k - 1, a.charCount)))
            /\ FracEq(FracMul(FracSub(<<1, 1>>, tpOut.val[k].y), <<TpHeight, 1>>),
                      TpAlong(a.start.y, a.end.y, TpFraction(k - 1, a.charCount)))
            /\ tpOut.val[k].x[1] >= 0 /\ tpOut.val[k].x[1] <= tpOut.val[k].x[2]
            /\ tpOut.val[k].y[1] >= 0 /\ tpOut.val[k].y[1] <= tpOut.val[k].y[2]

\* three characters were placed along a slanted baseline that ends left of and below
\* its start
C25_Witness ==
  /\ tpOut # NULL
  /\ tpArgs.val.charCount = 3
  /\ Len(tpOut.val) = 3
  /\ tpArgs.val.end.x[1] = 0 /\ tpArgs.val.start.x[1] > 0
  /\ tpArgs.val.end.y[1] > tpArgs.val.start.y[1] * tpArgs.val.end.y[2]
  /\ tpOut.val[1] # tpOut.val[2]

(***************************************************************************)
(* Claims on map loads that overlap                                        *)
(***************************************************************************)

\* the ids of the units of a save record
GameUnitIdsOf(saveData) ==
  IF saveData.units = NULL THEN {}
  ELSE { saveData.units.val[k].id : k \in 1 .. Len(saveData.units.val) }

\* raster, units and relations are those of the save record
GameAllFrom(saveData, raster, units, relations) ==
  /\ raster = saveData.image
  /\ DOMAIN units = GameUnitIdsOf(saveData)
  /\ relations = deserializeDiplomacy(saveData.diplomacy)

\* C26 as stated: when two map loads overlap, then once both have settled the raster,
\* the units and the diplomacy all come from one and the same save record, the one
\* requested last (stated of the step in which the last suspended loadMap settles).
C26_Original ==
  [][ (page = "game" /\ loadLog.overlapped /\ Len(gameLoads) = 1 /\ GameLoadMapResume)
        => GameAllFrom(GameFiles[loadLog.last], paintRT', unitState'.units, diplomacyState')
    ]_vars

\* two loads overlapped and have settled, and the raster is not the one of the record
\* requested last, while the units are
C26_Witness ==
  /\ page = "game"
  /\ loadLog.overlapped
  /\ gameLoads = <<>>
  /\ paintRT # GameFiles[loadLog.last].image
  /\ \E f \in 1 .. Len(GameFiles) : f # loadLog.last /\ paintRT = GameFiles[f].image

(***************************************************************************)
(* Claims on the cities and the labels of the editor                        *)
(***************************************************************************)

\* C27: in the editor, after any sequence of city creations, edits and deletions, of
\* clear and of map loads, the ids of the cities Map (which buildSaveData saves) are
\* the ids of cityMeshes in the text state, and the ids of the countryLabels Map are
\* the ids of countryMeshes
C27_Original ==
  page = "editor" =>
    /\ DOMAIN cities = DOMAIN textState.cityMeshes
    /\ DOMAIN countryLabels = DOMAIN textState.countryMeshes

\* the clear button was pressed with a city on the map: the city is still in the Map,
\* and nothing is rendered for it
C27_Witness ==
  /\ page = "editor"
  /\ eLast.op = "clear"
  /\ DOMAIN cities # {}
  /\ DOMAIN textState.cityMeshes = {}

\* what does hold: every rendered city is in the Map, the two label sets are equal,
\* and the two city sets are equal from every load on until the next clear
C27_MeshesInMap ==
  page = "editor" =>
    /\ DOMAIN textState.cityMeshes \subseteq DOMAIN cities
    /\ \A id \in DOMAIN textState.cityMeshes : textState.cityMeshes[id] = cities[id]
    /\ DOMAIN countryLabels = DOMAIN textState.countryMeshes

(***************************************************************************)
(* Claims on the movement tasks                                             *)
(***************************************************************************)

\* the ids of the units of the save files
GameUnitIds == {"unit_0", "unit_1"}

\* the tasks of the unit in a list of tasks
TasksOf(tasks, unitId) == SelectSeq(tasks, LAMBDA t : t.unitId = unitId)

\* every unit that has a task has none at some later time: each task is removed
C28_Removed ==
  \A unitId \in GameUnitIds :
    (page = "game" /\ TasksOf(activeTasks, unitId) # <<>>)
      ~> (TasksOf(activeTasks, unitId) = <<>>)

\* a frame takes the task of a unit that exists one waypoint further at most, with the
\* unit on that waypoint, and when it removes the task the waypoint is the last one;
\* any other step leaves currentIndex as it is, or puts in a task that starts at 0
C28_Steps ==
  [][ /\ FrameComes =>
           \A k \in 1 .. Len(activeTasks) :
             LET task == activeTasks[k]
                 after == TasksOf(activeTasks', task.unitId)
                 reached == task.path[task.currentIndex + 2]
             IN task.unitId \in DOMAIN unitState.units =>
                  IF after = <<>>
                  THEN /\ task.currentIndex + 2 = Len(task.path)
                       /\ unitState'.units[task.unitId].position = task.path[Len(task.path)]
                  ELSE /\ after[1].path = task.path
                       /\ \/ after[1].currentIndex = task.currentIndex
                          \/ /\ after[1].currentIndex = task.currentIndex + 1
                             /\ unitState'.units[task.unitId].position = reached
      /\ ~FrameComes =>
           \A k \in 1 .. Len(activeTasks') :
             \/ activeTasks'[k].currentIndex = 0
             \/ \E j \in 1 .. Len(activeTasks) : activeTasks[j] = activeTasks'[k]
    ]_vars

\* a task leaves activeTasks while its unit stays: the unit is on the last waypoint
C28_AtRemoval ==
  [][ \A k \in 1 .. Len(activeTasks) :
        LET task == activeTasks[k]
        IN ( /\ page = "game"
             /\ task.unitId \in DOMAIN unitState.units
             /\ task.unitId \in DOMAIN unitState'.units
             /\ \A j \in 1 .. Len(activeTasks') :
                  ~(activeTasks'[j].unitId = task.unitId /\ activeTasks'[j].path = task.path) )
           => unitState'.units[task.unitId].position = task.path[Len(task.path)]
    ]_vars

MovePaths ==
  { <<>>, << <<0, 0>> >>, << <<0, 0>>, <<SubPixel * MAP_WIDTH, MAP_HEIGHT>> >>,
    << <<0, MAP_HEIGHT>>, <<0, 0>>, <<SubPixel * MAP_WIDTH, 0>> >> }

\* the points where a unit rests when it has no task: where the files put the units
\* and where the paths of the clicks and of the replies end
MoveRestPoints ==
  GameTargets \cup { <<0, MAP_HEIGHT>>, <<SubPixel * MAP_WIDTH, 0>> }

\* activeTasks holds at most one task of each unit
OneTaskPerUnit(tasks) ==
  \A i, j \in 1 .. Len(tasks) : tasks[i].unitId = tasks[j].unitId => i = j

\* C29, first half: on the game page, after any sequence of movements started by clicks
\* and by plans, of deletions, map loads and frames, activeTasks holds at most one task
\* of each unit id
C29_OnePerUnit == page = "game" => OneTaskPerUnit(activeTasks)

\* C29, second half: from every list of tasks the page reaches, startMovement for a unit
\* leaves the tasks of the other units as they are and leaves this unit with the new
\* task alone, or with no task when the path has fewer than 2 points; cancelMovement
\* leaves the unit with no task, the others as they are
C29_Replaces ==
  page = "game" =>
    \A unitId \in GameUnitIds, path \in MovePaths :
      LET after == startMovement(activeTasks, unitId, path, DEFAULT_SPEED)
          cancelled == cancelMovement(activeTasks, unitId)
      IN /\ TasksOf(cancelled, unitId) = <<>>
         /\ \A other \in GameUnitIds \ {unitId} :
              TasksOf(cancelled, other) = TasksOf(activeTasks, other)
         /\ cancelMovement(after, unitId) = cancelled
         /\ TasksOf(after, unitId) =
              IF Len(path) < 2 THEN <<>>
              ELSE << [unitId |-> unitId, path |-> path, currentIndex |-> 0,
                       speed |-> DEFAULT_SPEED] >>
         /\ OneTaskPerUnit(after)

\* C29: activeTasks holds at most one task per unit id; starting a movement for a unit
\* replaces that unit's previous task, and a path with fewer than 2 points leaves the
\* unit with no task
C29_AtMostOneTask == C29_OnePerUnit /\ C29_Replaces

\* a unit was given a new task between two waypoints, that is while its previous task
\* was still active, and the new task is the only one it has
C29_Witness ==
  /\ page = "game"
  /\ \E k \in 1 .. Len(activeTasks) :
       /\ activeTasks[k].currentIndex = 0
       /\ activeTasks[k].path[1] \notin MoveRestPoints
       /\ activeTasks[k].unitId \in DOMAIN unitState.units
       /\ unitState.units[activeTasks[k].unitId].position = activeTasks[k].path[1]
       /\ TasksOf(activeTasks, activeTasks[k].unitId) = << activeTasks[k] >>

====
